---- MODULE Spec2Model ----
(***************************************************************************)
(* A model of the BASE ORM: the lazy query builder (base/query.py, with    *)
(* the lookup helpers of base/utils.py) and the migration engine           *)
(* (base/migrations.py).                                                   *)
(*                                                                         *)
(* Python objects are modelled with their identity: a QuerySet is an entry *)
(* of the sequence qs, and each of its list attributes is a reference into *)
(* the heap of list objects, lists, so that sharing a list between two     *)
(* builders is something the model can express.                            *)
(*                                                                         *)
(* SQL text is modelled as a sequence of tokens; a statement keeps the     *)
(* parts the code concatenates (select list, conditions, ordering, limit,  *)
(* offset) and SqlText gives the token sequence of the whole string.       *)
(***************************************************************************)
EXTENDS Integers, Sequences, FiniteSets, TLC

VARIABLES
    qs,        \* the QuerySet objects ever returned to the caller, by identity
    lists,     \* the heap of Python list objects the QuerySets refer to
    table,     \* the rows of the model's table, in rowid order
    nextId,    \* the AUTOINCREMENT counter of the table
    last,      \* the last call: its name, receiver, result, exception, statements
    files,     \* the migration files of the directory: name and operations
    ledger,    \* the names in the rows of _migrations, in id order
    schema,    \* the live catalog: the tables, each with its columns
    mlast,     \* the last migration call: name, argument, exception, event trace
    conn,      \* the Connection: its depth counter and the statements it ran
    objs,      \* the model instances the program holds, by creation order
    disk       \* the rows of the table as of the last commit

qvars == <<qs, lists, table, nextId, last>>
mvars == <<files, ledger, schema, mlast>>
vars == <<qs, lists, table, nextId, last, files, ledger, schema, mlast, conn,
          objs, disk>>

(***************************************************************************)
(* Bounds of the model.                                                    *)
(***************************************************************************)
MaxTriples == 2      \* lookups a builder accumulates (filters plus excludes)
MaxBuilders == 3     \* QuerySet objects alive at once
MaxRows == 2         \* rows ever inserted into the table

(***************************************************************************)
(* Python values.                                                          *)
(***************************************************************************)
NoneV == [t |-> "none"]
IntV(n) == [t |-> "int", v |-> n]
BoolV(b) == [t |-> "bool", v |-> b]
StrV(s) == [t |-> "str", v |-> s]     \* s: the sequence of character codes
TupV(s) == [t |-> "tuple", v |-> s]   \* a list or tuple of values

\* ord(c) of the characters that occur
ord(c) ==
    CASE c = "%" -> 37
      [] c = "0" -> 48
      [] c = "a" -> 97
      [] c = "b" -> 98

RECURSIVE PyStrNat(_)
PyStrNat(n) == IF n < 10 THEN <<ord("0") + n>>
               ELSE PyStrNat(n \div 10) \o <<ord("0") + (n % 10)>>

\* str(value), as an f-string interpolates it
PyStr(val) ==
    CASE val.t = "str" -> val.v
      [] val.t = "int" -> IF val.v < 0 THEN <<45>> \o PyStrNat(-val.v)
                          ELSE PyStrNat(val.v)
      [] val.t = "bool" -> IF val.v THEN <<84, 114, 117, 101>>
                           ELSE <<70, 97, 108, 115, 101>>
      [] val.t = "none" -> <<78, 111, 110, 101>>
      [] OTHER -> <<40, 41>>

\* Python truthiness (if value:)
Truthy(val) ==
    CASE val.t = "bool" -> val.v
      [] val.t = "int" -> val.v # 0
      [] val.t = "none" -> FALSE
      [] OTHER -> Len(val.v) > 0

(***************************************************************************)
(* SQL tokens.                                                             *)
(***************************************************************************)
Kw(s) == [k |-> "kw", s |-> s]
Ident(f) == [k |-> "id", f |-> f]     \* f: the name, split at "__"
Num(n) == [k |-> "num", n |-> n]
Ph == Kw("?")

(***************************************************************************)
(* base/utils.py                                                           *)
(***************************************************************************)
\* A lookup key is modelled by its split at "__": "age__gte" is
\* <<"age", "gte">> and "age" is <<"age">>.
parse_lookup(lookup) ==
    IF Len(lookup) > 1
    THEN <<SubSeq(lookup, 1, Len(lookup) - 1), lookup[Len(lookup)]>>
    ELSE <<lookup, "exact">>

get_operator_sql(operator) ==
    CASE operator = "exact" -> "="
      [] operator = "gt" -> ">"
      [] operator = "gte" -> ">="
      [] operator = "lt" -> "<"
      [] operator = "lte" -> "<="
      [] operator = "ne" -> "!="
      [] operator = "in" -> "IN"
      [] operator \in {"contains", "icontains", "startswith", "istartswith",
                       "endswith", "iendswith"} -> "LIKE"
      [] operator = "isnull" -> "IS NULL"
      [] operator = "range" -> "BETWEEN"
      [] OTHER -> "="

format_value_for_operator(value, operator) ==
    CASE operator \in {"contains", "icontains"} ->
            StrV(<<ord("%")>> \o PyStr(value) \o <<ord("%")>>)
      [] operator \in {"startswith", "istartswith"} ->
            StrV(PyStr(value) \o <<ord("%")>>)
      [] operator \in {"endswith", "iendswith"} ->
            StrV(<<ord("%")>> \o PyStr(value))
      [] OTHER -> value

(***************************************************************************)
(* QuerySet objects (base/query.py).                                       *)
(***************************************************************************)
NoRef == 0

\* QuerySet.__init__: a builder with fresh empty lists at references r+1..r+4
QuerySet_init(r) ==
    [filters |-> r + 1, excludes |-> r + 2, order_by |-> r + 3,
     limit |-> NoneV, offset |-> NoneV, select_related |-> r + 4,
     distinct |-> FALSE, values_fields |-> NoRef, cache |-> NoneV]

\* the value of builder object o, its lists read through the heap h
Deref(o, h) ==
    [filters |-> h[o.filters], excludes |-> h[o.excludes],
     order_by |-> h[o.order_by], limit |-> o.limit, offset |-> o.offset,
     select_related |-> h[o.select_related], distinct |-> o.distinct,
     values_fields |-> IF o.values_fields = NoRef THEN NoneV
                       ELSE TupV(h[o.values_fields]),
     cache |-> o.cache]

View(b) == Deref(qs[b], lists)

\* a clone that takes the receiver's list objects instead of copying them
_clone_shared(o, h) == <<[o EXCEPT !.cache = NoneV], h>>

\* a clone that also takes the receiver's cached rows
_clone_cached(o, h) ==
    <<[QuerySet_init(Len(h)) EXCEPT !.limit = o.limit, !.offset = o.offset,
                                    !.distinct = o.distinct,
                                    !.values_fields = o.values_fields,
                                    !.cache = o.cache],
      h \o <<h[o.filters], h[o.excludes], h[o.order_by],
             h[o.select_related]>> >>

\* QuerySet._clone: the pair <<new object, heap after the copies>>.  The
\* list attributes are copied (list.copy()), _values_fields is the same
\* reference, and _cache stays None
_clone(o, h) ==
    LET r == Len(h)
        q == QuerySet_init(r)
    IN <<[q EXCEPT !.limit = o.limit, !.offset = o.offset,
                   !.distinct = o.distinct,
                   !.values_fields = o.values_fields],
         h \o <<h[o.filters], h[o.excludes], h[o.order_by],
                h[o.select_related]>> >>

RECURSIVE AppendLookups(_, _)
\* for lookup, value in kwargs.items(): list.append((field, operator, value))
AppendLookups(l, kwargs) ==
    IF kwargs = <<>> THEN l
    ELSE LET p == parse_lookup(kwargs[1][1])
         IN AppendLookups(Append(l, <<p[1], p[2], kwargs[1][2]>>), Tail(kwargs))

\* QuerySet.filter / exclude / order_by / limit / offset / distinct / values /
\* select_related on the object o in heap h: <<returned object, heap after>>
filter(o, h, kwargs) ==
    LET c == _clone(o, h)
    IN <<c[1], [c[2] EXCEPT ![c[1].filters] = AppendLookups(@, kwargs)]>>

exclude(o, h, kwargs) ==
    LET c == _clone(o, h)
    IN <<c[1], [c[2] EXCEPT ![c[1].excludes] = AppendLookups(@, kwargs)]>>

\* qs._order_by = list(fields): a new list object
order_by(o, h, fields) ==
    LET c == _clone(o, h)
    IN <<[c[1] EXCEPT !.order_by = Len(c[2]) + 1], Append(c[2], fields)>>

limit(o, h, n) ==
    LET c == _clone(o, h)
    IN <<[c[1] EXCEPT !.limit = n], c[2]>>

offset(o, h, n) ==
    LET c == _clone(o, h)
    IN <<[c[1] EXCEPT !.offset = n], c[2]>>

distinct(o, h) ==
    LET c == _clone(o, h)
    IN <<[c[1] EXCEPT !.distinct = TRUE], c[2]>>

\* qs._values_fields = list(fields) if fields else None
values(o, h, fields) ==
    LET c == _clone(o, h)
    IN IF fields = <<>> THEN <<[c[1] EXCEPT !.values_fields = NoRef], c[2]>>
       ELSE <<[c[1] EXCEPT !.values_fields = Len(c[2]) + 1],
              Append(c[2], fields)>>

\* qs._select_related.extend(fields): in place, on the clone's list
select_related(o, h, fields) ==
    LET c == _clone(o, h)
    IN <<c[1], [c[2] EXCEPT ![c[1].select_related] = @ \o fields]>>

(***************************************************************************)
(* SQL synthesis.                                                          *)
(***************************************************************************)
RECURSIVE Placeholders(_)
\* ','.join('?' * n)
Placeholders(n) ==
    IF n = 0 THEN <<>>
    ELSE IF n = 1 THEN <<Ph>>
    ELSE <<Ph, Kw(",")>> \o Placeholders(n - 1)

\* one pass of the filter loop of _build_where_clause: the condition text
\* and the parameters it adds
FilterCondition(field_name, operator, value) ==
    LET sql_op == get_operator_sql(operator)
    IN CASE operator = "isnull" ->
              IF Truthy(value)
              THEN [cond |-> <<Ident(field_name), Kw("IS"), Kw("NULL")>>,
                    params |-> <<>>]
              ELSE [cond |-> <<Ident(field_name), Kw("IS"), Kw("NOT"), Kw("NULL")>>,
                    params |-> <<>>]
         [] operator = "in" ->
              [cond |-> <<Ident(field_name), Kw(sql_op), Kw("(")>>
                        \o Placeholders(Len(value.v)) \o <<Kw(")")>>,
               params |-> value.v]
         [] operator = "range" ->
              [cond |-> <<Ident(field_name), Kw("BETWEEN"), Ph, Kw("AND"), Ph>>,
               params |-> value.v]
         [] OTHER ->
              [cond |-> <<Ident(field_name), Kw(sql_op), Ph>>,
               params |-> <<format_value_for_operator(value, operator)>>]

\* one pass of the exclusion loop of _build_where_clause
ExcludeCondition(field_name, operator, value) ==
    LET sql_op == get_operator_sql(operator)
    IN CASE operator = "isnull" ->
              IF Truthy(value)
              THEN [cond |-> <<Ident(field_name), Kw("IS"), Kw("NOT"), Kw("NULL")>>,
                    params |-> <<>>]
              ELSE [cond |-> <<Ident(field_name), Kw("IS"), Kw("NULL")>>,
                    params |-> <<>>]
         [] operator = "in" ->
              [cond |-> <<Ident(field_name), Kw("NOT"), Kw(sql_op), Kw("(")>>
                        \o Placeholders(Len(value.v)) \o <<Kw(")")>>,
               params |-> value.v]
         [] OTHER ->
              [cond |-> <<Kw("NOT"), Kw("("), Ident(field_name), Kw(sql_op), Ph,
                          Kw(")")>>,
               params |-> <<format_value_for_operator(value, operator)>>]

RECURSIVE FilterConditions(_)
FilterConditions(triples) ==
    IF triples = <<>> THEN <<>>
    ELSE <<FilterCondition(triples[1][1], triples[1][2], triples[1][3])>>
         \o FilterConditions(Tail(triples))

RECURSIVE ExcludeConditions(_)
ExcludeConditions(triples) ==
    IF triples = <<>> THEN <<>>
    ELSE <<ExcludeCondition(triples[1][1], triples[1][2], triples[1][3])>>
         \o ExcludeConditions(Tail(triples))

RECURSIVE ConcatConds(_)
ConcatConds(cs) ==
    IF cs = <<>> THEN <<>> ELSE <<cs[1].cond>> \o ConcatConds(Tail(cs))

RECURSIVE ConcatParams(_)
ConcatParams(cs) ==
    IF cs = <<>> THEN <<>> ELSE cs[1].params \o ConcatParams(Tail(cs))

\* QuerySet._build_where_clause on the builder value v (a Deref): the list
\* `conditions` (each one its tokens) and the list `params`
_build_where_clause(v) ==
    LET cs == FilterConditions(v.filters) \o ExcludeConditions(v.excludes)
    IN [conditions |-> ConcatConds(cs), params |-> ConcatParams(cs)]

RECURSIVE JoinTokens(_, _)
\* sep.join(parts), each part a token sequence
JoinTokens(parts, sep) ==
    IF parts = <<>> THEN <<>>
    ELSE IF Len(parts) = 1 THEN parts[1]
    ELSE parts[1] \o <<sep>> \o JoinTokens(Tail(parts), sep)

\* the string where_clause: " WHERE " + " AND ".join(conditions), or ""
WhereText(conditions) ==
    IF conditions = <<>> THEN <<>>
    ELSE <<Kw("WHERE")>> \o JoinTokens(conditions, Kw("AND"))

\* an element of _order_by: "-x" is <<"-", "x">> and "x" is <<"x">>
StartsWithMinus(field) == field # <<>> /\ field[1] = "-"

\* an ORDER BY part that takes every field as ascending
OrderPart_ascending(field) ==
    IF StartsWithMinus(field) THEN <<Ident(Tail(field)), Kw("ASC")>>
    ELSE <<Ident(field), Kw("ASC")>>

OrderPart(field) ==
    IF StartsWithMinus(field) THEN <<Ident(Tail(field)), Kw("DESC")>>
    ELSE <<Ident(field), Kw("ASC")>>

RECURSIVE OrderParts(_)
OrderParts(fields) ==
    IF fields = <<>> THEN <<>>
    ELSE <<OrderPart(fields[1])>> \o OrderParts(Tail(fields))

RECURSIVE FieldList(_)
\* ', '.join(fields)
FieldList(fields) ==
    IF fields = <<>> THEN <<>>
    ELSE IF Len(fields) = 1 THEN <<Ident(<<fields[1]>>)>>
    ELSE <<Ident(<<fields[1]>>), Kw(",")>> \o FieldList(Tail(fields))

TableName == "users"

\* QuerySet._build_sql on the builder value v: the statement, kept as the
\* parts the code concatenates, and the parameter list
_build_sql(v) ==
    LET select_fields ==
            IF v.values_fields.t = "tuple" /\ v.values_fields.v # <<>>
            THEN FieldList(v.values_fields.v)
            ELSE <<Kw("*")>>
        w == _build_where_clause(v)
    IN [sql |-> [verb |-> "SELECT",
                 select |-> IF v.distinct
                            THEN <<Kw("SELECT"), Kw("DISTINCT")>> \o select_fields
                            ELSE <<Kw("SELECT")>> \o select_fields,
                 from |-> TableName,
                 where |-> w.conditions,
                 order |-> OrderParts(v.order_by),
                 limit |-> v.limit,
                 offset |-> v.offset],
        params |-> w.params]

\* the text of a statement, as the tokens of the string the code builds
SqlText(sql) ==
    sql.select \o <<Kw("FROM"), Ident(<<sql.from>>)>>
    \o WhereText(sql.where)
    \o (IF sql.order = <<>> THEN <<>>
        ELSE <<Kw("ORDER"), Kw("BY")>> \o JoinTokens(sql.order, Kw(",")))
    \o (IF sql.limit = NoneV THEN <<>> ELSE <<Kw("LIMIT"), Num(sql.limit.v)>>)
    \o (IF sql.offset = NoneV THEN <<>> ELSE <<Kw("OFFSET"), Num(sql.offset.v)>>)

RECURSIVE CountPlaceholders(_)
CountPlaceholders(text) ==
    IF text = <<>> THEN 0
    ELSE (IF text[1] = Ph THEN 1 ELSE 0) + CountPlaceholders(Tail(text))

(***************************************************************************)
(* The storage engine behind Connection.execute: what SQLite answers to    *)
(* the statements the builder writes.  The modelled table has the columns  *)
(* id (INTEGER PRIMARY KEY AUTOINCREMENT), age (INTEGER), name (VARCHAR).  *)
(***************************************************************************)
Columns == {"id", "age", "name"}
TextColumns == {"name"}

IsColumn(tok) == tok.k = "id" /\ Len(tok.f) = 1 /\ tok.f[1] \in Columns

CmpOps == {"=", ">", ">=", "<", "<=", "!=", "LIKE"}

\* the form of one condition, as the SQL grammar reads its tokens
CondShape(c) ==
    CASE Len(c) = 3 /\ c[2] = Kw("IS") /\ c[3] = Kw("NULL") -> "isnull"
      [] Len(c) = 4 /\ c[2] = Kw("IS") /\ c[3] = Kw("NOT") /\ c[4] = Kw("NULL")
            -> "notnull"
      [] Len(c) >= 4 /\ c[2] = Kw("IN") /\ c[3] = Kw("(") /\ c[Len(c)] = Kw(")")
            -> "in"
      [] Len(c) >= 5 /\ c[2] = Kw("NOT") /\ c[3] = Kw("IN") /\ c[4] = Kw("(")
                     /\ c[Len(c)] = Kw(")") -> "notin"
      [] Len(c) = 5 /\ c[2] = Kw("BETWEEN") /\ c[3] = Ph /\ c[4] = Kw("AND")
                    /\ c[5] = Ph -> "between"
      [] Len(c) = 3 /\ c[2].k = "kw" /\ c[2].s \in CmpOps /\ c[3] = Ph -> "cmp"
      [] Len(c) = 6 /\ c[1] = Kw("NOT") /\ c[2] = Kw("(") /\ c[4].k = "kw"
                    /\ c[4].s \in CmpOps /\ c[5] = Ph /\ c[6] = Kw(")") -> "notcmp"
      [] OTHER -> "syntax error"

CondColumn(c) == IF CondShape(c) = "notcmp" THEN c[3] ELSE c[1]

\* sqlite3 binds int, str, None (and bool, an int); a tuple is refused
Bindable(p) == p.t \in {"int", "str", "bool", "none"}

\* a bound parameter as the engine's value
Bound(p) == IF p.t = "bool" THEN IntV(IF p.v THEN 1 ELSE 0) ELSE p

IsDigits(s) == s # <<>> /\ \A i \in 1..Len(s) : s[i] >= ord("0") /\ s[i] <= ord("0") + 9

RECURSIVE DigitsValue(_)
DigitsValue(s) ==
    IF s = <<>> THEN 0
    ELSE 10 * DigitsValue(SubSeq(s, 1, Len(s) - 1)) + (s[Len(s)] - ord("0"))

\* column affinity applied to the value compared with column col
Affine(col, p) ==
    IF col \in TextColumns
    THEN (IF p.t = "int" THEN StrV(PyStr(p)) ELSE p)
    ELSE (IF p.t = "str" /\ IsDigits(p.v) THEN IntV(DigitsValue(p.v)) ELSE p)

RECURSIVE SeqLess(_, _)
SeqLess(a, b) ==
    IF b = <<>> THEN FALSE
    ELSE IF a = <<>> THEN TRUE
    ELSE IF a[1] # b[1] THEN a[1] < b[1]
    ELSE SeqLess(Tail(a), Tail(b))

\* the engine's order on non-NULL values: numbers before text
ValLess(a, b) ==
    CASE a.t = "int" /\ b.t = "int" -> a.v < b.v
      [] a.t = "int" /\ b.t = "str" -> TRUE
      [] a.t = "str" /\ b.t = "int" -> FALSE
      [] OTHER -> SeqLess(a.v, b.v)

Lower(ch) == IF ch >= 65 /\ ch <= 90 THEN ch + 32 ELSE ch

RECURSIVE LikeMatch(_, _)
\* text LIKE pattern: % is any run of characters, _ any one character
LikeMatch(text, pat) ==
    IF pat = <<>> THEN text = <<>>
    ELSE IF pat[1] = ord("%")
         THEN LikeMatch(text, Tail(pat))
              \/ (text # <<>> /\ LikeMatch(Tail(text), pat))
    ELSE /\ text # <<>>
         /\ (pat[1] = 95 \/ Lower(text[1]) = Lower(pat[1]))
         /\ LikeMatch(Tail(text), Tail(pat))

Not3(x) == CASE x = "T" -> "F" [] x = "F" -> "T" [] OTHER -> "N"
Bool3(b) == IF b THEN "T" ELSE "F"

\* column value a <op> parameter b, three-valued
Compare3(op, col, a, b0) ==
    LET b == Affine(col, b0)
    IN IF a = NoneV \/ b = NoneV THEN "N"
       ELSE CASE op = "=" -> Bool3(a = b)
              [] op = "!=" -> Bool3(a # b)
              [] op = "<" -> Bool3(ValLess(a, b))
              [] op = "<=" -> Bool3(ValLess(a, b) \/ a = b)
              [] op = ">" -> Bool3(ValLess(b, a))
              [] op = ">=" -> Bool3(ValLess(b, a) \/ a = b)
              [] OTHER -> Bool3(LikeMatch(PyStr(a), PyStr(b0)))

\* the truth value of condition c on row, its placeholders bound to seg
Cond3(c, seg, row) ==
    LET shape == CondShape(c)
        col == CondColumn(c).f[1]
        a == row[col]
    IN CASE shape = "isnull" -> Bool3(a = NoneV)
         [] shape = "notnull" -> Bool3(a # NoneV)
         [] shape = "in" ->
               IF \E i \in 1..Len(seg) : Compare3("=", col, a, Bound(seg[i])) = "T"
               THEN "T"
               ELSE IF a = NoneV /\ seg # <<>> THEN "N"
               ELSE IF \E i \in 1..Len(seg) : seg[i] = NoneV THEN "N"
               ELSE "F"
         [] shape = "notin" ->
               Not3(IF \E i \in 1..Len(seg) :
                           Compare3("=", col, a, Bound(seg[i])) = "T"
                    THEN "T"
                    ELSE IF a = NoneV /\ seg # <<>> THEN "N"
                    ELSE IF \E i \in 1..Len(seg) : seg[i] = NoneV THEN "N"
                    ELSE "F")
         [] shape = "between" ->
               IF Compare3(">=", col, a, Bound(seg[1])) = "T"
                  /\ Compare3("<=", col, a, Bound(seg[2])) = "T" THEN "T"
               ELSE IF Compare3(">=", col, a, Bound(seg[1])) = "F"
                       \/ Compare3("<=", col, a, Bound(seg[2])) = "F" THEN "F"
               ELSE "N"
         [] shape = "cmp" -> Compare3(c[2].s, col, a, Bound(seg[1]))
         [] OTHER -> Not3(Compare3(c[4].s, col, a, Bound(seg[1])))

RECURSIVE CountAll(_)
CountAll(conditions) ==
    IF conditions = <<>> THEN 0
    ELSE CountPlaceholders(conditions[1]) + CountAll(Tail(conditions))

RECURSIVE SegmentsOf(_, _)
\* params cut into the runs that fill each condition's placeholders
SegmentsOf(conditions, params) ==
    IF conditions = <<>> THEN <<>>
    ELSE LET n == CountPlaceholders(conditions[1])
         IN <<SubSeq(params, 1, n)>>
            \o SegmentsOf(Tail(conditions), SubSeq(params, n + 1, Len(params)))

\* the WHERE clause is accepted: it parses, names columns of the table, and
\* as many bindable parameters are supplied as it has placeholders
WhereOk(conditions, params) ==
    /\ \A i \in 1..Len(conditions) :
          /\ CondShape(conditions[i]) # "syntax error"
          /\ IsColumn(CondColumn(conditions[i]))
    /\ CountAll(conditions) = Len(params)
    /\ \A i \in 1..Len(params) : Bindable(params[i])

\* the rows of tbl the WHERE clause keeps (those on which it is true)
WhereRows(conditions, params, tbl) ==
    LET segs == SegmentsOf(conditions, params)
    IN SelectSeq(tbl, LAMBDA row :
          \A i \in 1..Len(conditions) : Cond3(conditions[i], segs[i], row) = "T")

\* NULL sorts first; rows equal on the key keep their order
KeyLess(a, b) == IF a = NoneV THEN b # NoneV
                 ELSE IF b = NoneV THEN FALSE ELSE ValLess(a, b)

RECURSIVE RowBefore(_, _, _)
\* row r sorts strictly before row q under the ORDER BY terms
RowBefore(r, q, order) ==
    IF order = <<>> THEN FALSE
    ELSE LET col == order[1][1].f[1]
             desc == order[1][2] = Kw("DESC")
         IN IF r[col] = q[col] THEN RowBefore(r, q, Tail(order))
            ELSE IF desc THEN KeyLess(q[col], r[col]) ELSE KeyLess(r[col], q[col])

RECURSIVE InsertSorted(_, _, _)
InsertSorted(sorted, row, order) ==
    IF sorted = <<>> THEN <<row>>
    ELSE IF RowBefore(row, sorted[1], order) THEN <<row>> \o sorted
    ELSE <<sorted[1]>> \o InsertSorted(Tail(sorted), row, order)

RECURSIVE SortRows(_, _)
SortRows(rows, order) ==
    IF rows = <<>> THEN <<>>
    ELSE InsertSorted(SortRows(SubSeq(rows, 1, Len(rows) - 1), order),
                      rows[Len(rows)], order)

RECURSIVE Dedup(_)
Dedup(rows) ==
    IF rows = <<>> THEN <<>>
    ELSE LET init == Dedup(SubSeq(rows, 1, Len(rows) - 1))
             r == rows[Len(rows)]
         IN IF \E i \in 1..Len(init) : init[i] = r THEN init ELSE Append(init, r)

\* the select list after SELECT [DISTINCT]
SelectList(sql) ==
    IF Len(sql.select) >= 2 /\ sql.select[2] = Kw("DISTINCT")
    THEN SubSeq(sql.select, 3, Len(sql.select))
    ELSE SubSeq(sql.select, 2, Len(sql.select))

SelectIdents(sql) == SelectSeq(SelectList(sql), LAMBDA tok : tok # Kw(","))

RECURSIVE PickColumns(_, _)
\* the row cut to the columns the select list names
PickColumns(row, idents) ==
    IF idents = <<>> THEN <<>>
    ELSE (idents[1].f[1] :> row[idents[1].f[1]])
         @@ PickColumns(row, Tail(idents))

Project(row, sql) ==
    IF SelectList(sql) = <<Kw("*")>> THEN row
    ELSE IF SelectList(sql) = <<Kw("1")>> THEN ("1" :> IntV(1))
    ELSE PickColumns(row, SelectIdents(sql))

RECURSIVE ProjectAll(_, _)
ProjectAll(rows, sql) ==
    IF rows = <<>> THEN <<>>
    ELSE <<Project(rows[1], sql)>> \o ProjectAll(Tail(rows), sql)

\* LIMIT n OFFSET m: a negative limit is no limit, a negative offset is 0
Page(rows, lim, off) ==
    LET from == IF off = NoneV \/ off.v < 0 THEN 0 ELSE off.v
        rest == SubSeq(rows, from + 1, Len(rows))
    IN IF lim = NoneV \/ lim.v < 0 THEN rest
       ELSE SubSeq(rest, 1, IF lim.v < Len(rest) THEN lim.v ELSE Len(rest))

\* the engine accepts the SELECT: OFFSET needs a LIMIT before it
SelectOk(sql, params) ==
    /\ WhereOk(sql.where, params)
    /\ \A i \in 1..Len(sql.order) : IsColumn(sql.order[i][1])
    /\ \/ SelectList(sql) \in {<<Kw("*")>>, <<Kw("1")>>}
       \/ \A i \in 1..Len(SelectIdents(sql)) : IsColumn(SelectIdents(sql)[i])
    /\ sql.offset # NoneV => sql.limit # NoneV

\* cursor.fetchall() of the SELECT
SelectRows(sql, params, tbl) ==
    LET kept == WhereRows(sql.where, params, tbl)
        sorted == SortRows(kept, sql.order)
        projected == ProjectAll(sorted, sql)
        result == IF Len(sql.select) >= 2 /\ sql.select[2] = Kw("DISTINCT")
                  THEN Dedup(projected) ELSE projected
    IN Page(result, sql.limit, sql.offset)

\* one executed statement, as the connection saw it
Stmt(sql, params, ok, rows) ==
    [sql |-> sql, params |-> params, ok |-> ok, rows |-> rows]

(***************************************************************************)
(* Terminal operations of QuerySet.                                        *)
(***************************************************************************)
Rows(rows) == [t |-> "rows", v |-> rows]

\* Field.to_python of the column's field: int(value) or str(value)
to_python(col, value) ==
    IF value = NoneV THEN NoneV
    ELSE IF col \in TextColumns THEN StrV(PyStr(value))
    ELSE value

\* the model's _fields, in declaration order
Fields == <<"id", "age", "name">>

RECURSIVE LoadFields(_, _)
\* for each field whose column is in row.keys(): field.to_python(row[column])
LoadFields(row, fields) ==
    IF fields = <<>> THEN <<>>
    ELSE IF fields[1] \in DOMAIN row
    THEN (fields[1] :> to_python(fields[1], row[fields[1]]))
         @@ LoadFields(row, Tail(fields))
    ELSE LoadFields(row, Tail(fields))

\* QuerySet._create_instance
_create_instance(v, row) ==
    IF v.values_fields.t = "tuple" /\ v.values_fields.v # <<>>
    THEN [t |-> "dict", v |-> row]
    ELSE [t |-> "obj", loaded |-> TRUE, v |-> LoadFields(row, Fields)]

\* cursor.fetchall() came back with rows: they are cached and returned
Fetched(q, rows) ==
    [exc |-> "none", rows |-> rows, cache |-> Rows(rows),
     stmts |-> <<Stmt(q.sql, q.params, TRUE, rows)>>]

\* self.model._connection.execute(sql, params) of the built statement q
Executed(q, tbl) ==
    IF SelectOk(q.sql, q.params)
    THEN Fetched(q, SelectRows(q.sql, q.params, tbl))
    ELSE [exc |-> "ConnectionError", rows |-> <<>>, cache |-> NoneV,
          stmts |-> <<Stmt(q.sql, q.params, FALSE, <<>>)>>]

\* _execute that goes to the database whatever the builder holds
_execute_uncached(v, tbl) == Executed(_build_sql(v), tbl)

\* QuerySet._execute on builder value v: the rows, the cache after, the
\* statements sent, and the exception ("none" when it returns)
_execute(v, tbl) ==
    IF v.cache # NoneV
    THEN [exc |-> "none", rows |-> v.cache.v, cache |-> v.cache, stmts |-> <<>>]
    ELSE Executed(_build_sql(v), tbl)

RECURSIVE Instances(_, _)
\* [self._create_instance(row) for row in rows]
Instances(v, rows) ==
    IF rows = <<>> THEN <<>>
    ELSE <<_create_instance(v, rows[1])>> \o Instances(v, Tail(rows))

\* the list all() makes of what _execute returned
Listed(v, e) ==
    [exc |-> e.exc, cache |-> e.cache, stmts |-> e.stmts,
     ret |-> Instances(v, e.rows)]

\* QuerySet.all
all(v, tbl) == Listed(v, _execute(v, tbl))

\* the builder value behind the (object, heap) pair a chaining call returns
Made(c) == Deref(c[1], c[2])

\* get() with the exceptions exchanged
SwappedOne(results) ==
    IF results.exc # "none"
    THEN [exc |-> results.exc, ret |-> NoneV, stmts |-> results.stmts]
    ELSE IF Len(results.ret) = 0
    THEN [exc |-> "MultipleObjectsReturned", ret |-> NoneV,
          stmts |-> results.stmts]
    ELSE IF Len(results.ret) > 1
    THEN [exc |-> "DoesNotExist", ret |-> NoneV, stmts |-> results.stmts]
    ELSE [exc |-> "none", ret |-> results.ret[1], stmts |-> results.stmts]

get_swapped(o, h, kwargs, tbl) ==
    SwappedOne(all(Made(filter(o, h, kwargs)), tbl))

\* the tail of get(): no result, several results, or the one result
ExactlyOne(results) ==
    IF results.exc # "none"
    THEN [exc |-> results.exc, ret |-> NoneV, stmts |-> results.stmts]
    ELSE IF Len(results.ret) = 0
    THEN [exc |-> "DoesNotExist", ret |-> NoneV, stmts |-> results.stmts]
    ELSE IF Len(results.ret) > 1
    THEN [exc |-> "MultipleObjectsReturned", ret |-> NoneV,
          stmts |-> results.stmts]
    ELSE [exc |-> "none", ret |-> results.ret[1], stmts |-> results.stmts]

\* QuerySet.get on object o: qs = self.filter(**kwargs); results = qs.all()
get(o, h, kwargs, tbl) ==
    ExactlyOne(all(Made(filter(o, h, kwargs)), tbl))

DeleteSql(conditions) ==
    [verb |-> "DELETE", select |-> <<Kw("DELETE")>>, from |-> TableName,
     where |-> conditions, order |-> <<>>, limit |-> NoneV, offset |-> NoneV]

\* the table after DELETE FROM users WHERE ...: the rows the clause keeps go
DeleteRows(conditions, params, tbl) ==
    SelectSeq(tbl, LAMBDA row :
        ~ \A i \in 1..Len(conditions) :
              Cond3(conditions[i], SegmentsOf(conditions, params)[i], row) = "T")

\* cursor.rowcount after the DELETE left the table as `after`
Deleted(w, tbl, after) ==
    [exc |-> "none", table |-> after, ret |-> IntV(Len(tbl) - Len(after)),
     stmts |-> <<Stmt(DeleteSql(w.conditions), w.params, TRUE, <<>>)>>]

\* connection.execute of DELETE FROM users WHERE ..., w the built clause
DeleteWhere(w, tbl) ==
    IF WhereOk(w.conditions, w.params)
    THEN Deleted(w, tbl, DeleteRows(w.conditions, w.params, tbl))
    ELSE [exc |-> "ConnectionError", table |-> tbl, ret |-> NoneV,
          stmts |-> <<Stmt(DeleteSql(w.conditions), w.params, FALSE, <<>>)>>]

\* delete() that goes on to the DELETE statement whatever the WHERE clause
delete_unguarded(v, tbl) == DeleteWhere(_build_where_clause(v), tbl)

\* if not where_clause: raise QueryError(...)
Guarded(w, tbl) ==
    IF WhereText(w.conditions) = <<>>
    THEN [exc |-> "QueryError", table |-> tbl, ret |-> NoneV, stmts |-> <<>>]
    ELSE DeleteWhere(w, tbl)

\* QuerySet.delete on builder value v
delete(v, tbl) == Guarded(_build_where_clause(v), tbl)

(***************************************************************************)
(* The inputs the calls are tried with.                                    *)
(***************************************************************************)
\* keyword arguments of filter/exclude as (key, value) items.  Every
\* recognised operator occurs, with an unknown one, a bare field and a
\* relation path; `in` and `range` take lists, as they must (len(value),
\* params.extend(value)), and nothing makes the list of a `range` a pair.
SqlItems ==
    {<<(<<"age">>), IntV(1)>>,
     <<(<<"age", "exact">>), IntV(2)>>,
     <<(<<"age", "gt">>), IntV(0)>>,
     <<(<<"age", "gte">>), IntV(1)>>,
     <<(<<"age", "lt">>), IntV(2)>>,
     <<(<<"age", "lte">>), IntV(1)>>,
     <<(<<"age", "ne">>), IntV(0)>>,
     <<(<<"age", "in">>), TupV(<<>>)>>,
     <<(<<"id", "in">>), TupV(<<IntV(1), IntV(2)>>)>>,
     <<(<<"name", "contains">>), StrV(<<ord("a")>>)>>,
     <<(<<"name", "icontains">>), StrV(<<ord("b")>>)>>,
     <<(<<"name", "startswith">>), StrV(<<ord("a")>>)>>,
     <<(<<"name", "istartswith">>), IntV(1)>>,
     <<(<<"name", "endswith">>), StrV(<<ord("b")>>)>>,
     <<(<<"name", "iendswith">>), StrV(<<ord("a"), ord("b")>>)>>,
     <<(<<"age", "isnull">>), BoolV(TRUE)>>,
     <<(<<"name", "isnull">>), BoolV(FALSE)>>,
     <<(<<"age", "range">>), TupV(<<IntV(0), IntV(1)>>)>>,
     <<(<<"id", "range">>), TupV(<<IntV(0), IntV(1), IntV(2)>>)>>,
     <<(<<"age", "between">>), IntV(1)>>,
     <<(<<"author", "name">>), StrV(<<ord("a")>>)>>}

\* **kwargs: up to n items under distinct keys, in the order given
RECURSIVE KwargsOf(_, _)
KwargsOf(items, n) ==
    IF n = 0 THEN {<<>>}
    ELSE LET shorter == KwargsOf(items, n - 1)
         IN shorter \cup
            {Append(k, i) : k \in {x \in shorter : Len(x) = n - 1}, i \in items}

DistinctKeys(kwargs) ==
    \A i, j \in 1..Len(kwargs) : i # j => kwargs[i][1] # kwargs[j][1]

MaxKwargs == 2

SqlKwargs == {k \in KwargsOf(SqlItems, MaxKwargs) : k # <<>> /\ DistinctKeys(k)}

(***************************************************************************)
(* The initial state: Model.objects.get_queryset() has made one builder,   *)
(* the table and the migrations directory are empty.                       *)
(***************************************************************************)
\* the record of a call: its name, receiver, arguments, returned value,
\* exception ("none" when it returned) and the statements it executed
Called(op, b, args, ret, exc, stmts) ==
    [op |-> op, self |-> b, args |-> args, ret |-> ret, exc |-> exc,
     stmts |-> stmts]

NoCall == Called("none", 0, <<>>, NoneV, "none", <<>>)

Init ==
    /\ qs = <<QuerySet_init(0)>>
    /\ lists = <<(<<>>), (<<>>), (<<>>), (<<>>)>>
    /\ table = <<>>
    /\ nextId = 1
    /\ last = NoCall
    /\ files = {}
    /\ ledger = <<>>
    /\ schema = {}
    /\ mlast = [op |-> "none", arg |-> NoneV, exc |-> "none", trace |-> <<>>]
    /\ conn = [_transaction_depth |-> 0, log |-> <<>>, raising |-> "no",
               raised |-> FALSE, _conn |-> FALSE, scopes |-> 0,
               entry |-> <<>>]
    /\ objs = <<>>
    /\ disk = <<>>

Triples(b) == Len(View(b).filters) + Len(View(b).excludes)

\* the caller keeps the builder a chaining call returns
Returned(op, b, args, r) ==
    /\ qs' = Append(qs, r[1])
    /\ lists' = r[2]
    /\ last' = Called(op, b, args, IntV(Len(qs) + 1), "none", <<>>)
    /\ UNCHANGED <<table, nextId>>
    /\ UNCHANGED <<mvars, conn, objs, disk>>

Call_filter(b, kwargs) ==
    /\ Triples(b) + Len(kwargs) <= MaxTriples
    /\ Returned("filter", b, kwargs, filter(qs[b], lists, kwargs))

Call_exclude(b, kwargs) ==
    /\ Triples(b) + Len(kwargs) <= MaxTriples
    /\ Returned("exclude", b, kwargs, exclude(qs[b], lists, kwargs))

Call_order_by(b, fields) ==
    Returned("order_by", b, fields, order_by(qs[b], lists, fields))

Call_limit(b, n) ==
    Returned("limit", b, <<n>>, limit(qs[b], lists, n))

Call_offset(b, n) ==
    Returned("offset", b, <<n>>, offset(qs[b], lists, n))

Call_distinct(b) ==
    Returned("distinct", b, <<>>, distinct(qs[b], lists))

Call_values(b, fields) ==
    Returned("values", b, fields, values(qs[b], lists, fields))

Call_select_related(b, fields) ==
    Returned("select_related", b, fields, select_related(qs[b], lists, fields))

\* q.all(): the rows are cached on q itself
AllDone(b, r) ==
    /\ qs' = [qs EXCEPT ![b].cache = r.cache]
    /\ last' = Called("all", b, <<>>, r.ret, r.exc, r.stmts)
    /\ UNCHANGED <<lists, table, nextId>>
    /\ UNCHANGED <<mvars, conn, objs, disk>>

Call_all(b) == AllDone(b, all(View(b), table))

\* q.get(**kwargs): the builder it filters and runs is its own
GetDone(b, kwargs, r) ==
    /\ last' = Called("get", b, kwargs, r.ret, r.exc, r.stmts)
    /\ UNCHANGED <<qs, lists, table, nextId>>
    /\ UNCHANGED <<mvars, conn, objs, disk>>

Call_get(b, kwargs) == GetDone(b, kwargs, get(qs[b], lists, kwargs, table))

\* connection.commit() after the statement of a write: the rows the call
\* left are on disk; a call that raised, or ran no statement, commits nothing
Committed(r, d) ==
    IF r.exc = "none" /\ r.stmts # <<>> THEN r.table ELSE d

\* q.delete()
DeleteDone(b, r) ==
    /\ table' = r.table
    /\ last' = Called("delete", b, <<>>, r.ret, r.exc, r.stmts)
    /\ disk' = Committed(r, disk)
    /\ UNCHANGED <<qs, lists, nextId>>
    /\ UNCHANGED <<mvars, conn, objs>>

Call_delete(b) == DeleteDone(b, delete(View(b), table))

\* Model.objects.create(age=..., name=...): Model.save of a new instance,
\* an INSERT that takes the next AUTOINCREMENT id
Model_create(age, name) ==
    /\ nextId <= MaxRows
    /\ table' = Append(table, [id |-> IntV(nextId), age |-> age, name |-> name])
    /\ nextId' = nextId + 1
    /\ last' = Called("create", 0, <<age, name>>, IntV(nextId), "none", <<>>)
    /\ disk' = table'
    /\ UNCHANGED <<qs, lists>>
    /\ UNCHANGED <<mvars, conn, objs>>

\* Model.delete of the instance whose primary key is pk:
\* DELETE FROM users WHERE id = ?
Model_delete(pk) ==
    /\ table' = SelectSeq(table, LAMBDA row : row.id # IntV(pk))
    /\ last' = Called("Model.delete", 0, <<pk>>, NoneV, "none", <<>>)
    /\ disk' = table'
    /\ UNCHANGED <<qs, lists, nextId>>
    /\ UNCHANGED <<mvars, conn, objs>>

(***************************************************************************)
(* SpecSql: the SQL synthesis over every chain of filter() and exclude().  *)
(***************************************************************************)
NextSql ==
    \E kwargs \in SqlKwargs :
        \/ Call_filter(Len(qs), kwargs)
        \/ Call_exclude(Len(qs), kwargs)

SpecSql == Init /\ [][NextSql]_vars

(***************************************************************************)
(* Claims about the SQL synthesis.                                         *)
(***************************************************************************)
RECURSIVE PlaceholdersBefore(_, _)
PlaceholdersBefore(conditions, j) ==
    IF j = 1 THEN 0
    ELSE PlaceholdersBefore(conditions, j - 1)
         + CountPlaceholders(conditions[j - 1])

\* the parameters that fill the placeholders of the j-th condition
Segment(conditions, params, j) ==
    SubSeq(params, PlaceholdersBefore(conditions, j) + 1,
           PlaceholdersBefore(conditions, j) + CountPlaceholders(conditions[j]))

WithoutWildcards(s) == SelectSeq(s, LAMBDA c : c # ord("%"))

\* seg are the values of the lookup triple: the value itself, the elements
\* of its list, the value between wildcards, or nothing for a NULL test
ValuesOf(seg, triple) ==
    \/ seg = <<triple[3]>>
    \/ triple[3].t = "tuple" /\ seg = triple[3].v
    \/ /\ Len(seg) = 1
       /\ seg[1].t = "str"
       /\ WithoutWildcards(seg[1].v) = PyStr(triple[3])
    \/ triple[2] = "isnull" /\ seg = <<>>

\* C1: the SQL of every builder made by chaining filter() and exclude() has
\* as many ? placeholders as the parameter list has elements, and the
\* parameters are the filter values in declaration order followed by the
\* exclusion values in declaration order: the placeholders of the j-th
\* condition are filled by the values of the j-th lookup.
C1_ParamsMatchPlaceholders ==
    \A b \in 1..Len(qs) :
        /\ CountPlaceholders(SqlText(_build_sql(View(b)).sql))
               = Len(_build_sql(View(b)).params)
        /\ Len(_build_sql(View(b)).sql.where)
               = Len(View(b).filters \o View(b).excludes)
        /\ \A j \in 1..Len(View(b).filters \o View(b).excludes) :
              ValuesOf(Segment(_build_sql(View(b)).sql.where,
                               _build_sql(View(b)).params, j),
                       (View(b).filters \o View(b).excludes)[j])

\* every `range` filter of builder b was given a pair
PairRanges(b) ==
    \A j \in 1..Len(View(b).filters) :
        View(b).filters[j][2] = "range" => Len(View(b).filters[j][3].v) = 2

\* The count and the order hold of the builders whose `range` filters were
\* all given pairs.
PairRangesMatchPlaceholders ==
    \A b \in 1..Len(qs) :
        PairRanges(b) =>
            /\ CountPlaceholders(SqlText(_build_sql(View(b)).sql))
                   = Len(_build_sql(View(b)).params)
            /\ \A j \in 1..Len(View(b).filters \o View(b).excludes) :
                  ValuesOf(Segment(_build_sql(View(b)).sql.where,
                                   _build_sql(View(b)).params, j),
                           (View(b).filters \o View(b).excludes)[j])

(***************************************************************************)
(* SpecChain: builders chained from any builder made so far, some of them  *)
(* evaluated, so that receivers carry lists and a cache.                   *)
(***************************************************************************)
ChainItems ==
    {<<(<<"age">>), IntV(1)>>,
     <<(<<"name", "contains">>), StrV(<<ord("a")>>)>>}

ChainKwargs == {<<i>> : i \in ChainItems}

ChainStep(b) ==
    \/ \E kwargs \in ChainKwargs : Call_filter(b, kwargs)
    \/ \E kwargs \in ChainKwargs : Call_exclude(b, kwargs)
    \/ \E fields \in {<<(<<"-", "age">>)>>} : Call_order_by(b, fields)
    \/ Call_limit(b, IntV(1))
    \/ Call_offset(b, IntV(1))
    \/ Call_distinct(b)
    \/ \E fields \in {<<>>, <<"age">>} : Call_values(b, fields)
    \/ Call_select_related(b, <<"author">>)

NextChain ==
    \/ \E b \in 1..Len(qs) : Len(qs) < MaxBuilders /\ ChainStep(b)
    \/ \E b \in 1..Len(qs) : Call_all(b)
    \/ Model_create(IntV(1), StrV(<<ord("a")>>))

SpecChain == Init /\ [][NextChain]_vars

ChainOps == {"filter", "exclude", "order_by", "limit", "offset", "distinct",
             "values", "select_related"}

\* C2: a chaining call (filter, exclude, order_by, limit, offset, distinct,
\* values, select_related) returns a builder that did not exist before, and
\* every builder that existed - the receiver, and the builders the receiver
\* was itself chained from - has the same filter list, exclude list,
\* ordering, limit, offset, distinct flag, projection and cache after the
\* call as before it.
C2_ChainingLeavesReceiver ==
    [][Len(qs') # Len(qs) =>
          /\ last'.op \in ChainOps
          /\ Len(qs') = Len(qs) + 1
          /\ last'.ret = IntV(Len(qs'))
          /\ last'.self \in 1..Len(qs)
          /\ \A b \in 1..Len(qs) :
                /\ qs'[b] = qs[b]
                /\ Deref(qs'[b], lists') = Deref(qs[b], lists)]_vars

\* select_related() (the in-place extend) was called on an evaluated
\* builder that has a filter and was itself chained from another, and
\* the returned builder differs from it
C2_Witness ==
    /\ last.op = "select_related"
    /\ last.self > 1
    /\ View(last.self).filters # <<>>
    /\ View(last.self).cache # NoneV
    /\ View(last.ret.v).select_related # View(last.self).select_related

(***************************************************************************)
(* SpecQ: builders chained one from the other, run against a table whose   *)
(* rows come and go.                                                       *)
(***************************************************************************)
QItems ==
    {<<(<<"age">>), IntV(1)>>,
     <<(<<"id">>), IntV(1)>>}

QKwargs == {<<i>> : i \in QItems}

AgeValues == {NoneV, IntV(1)}
NameValues == {StrV(<<ord("a")>>)}

NextQ ==
    \/ /\ Len(qs) < MaxBuilders
       /\ \/ \E kwargs \in QKwargs : Call_filter(Len(qs), kwargs)
          \/ \E kwargs \in {<<(<<(<<"age", "range">>),
                                TupV(<<IntV(0), IntV(1)>>)>>)>>} :
                Call_exclude(Len(qs), kwargs)
          \/ \E fields \in {<<(<<"-", "age">>)>>} :
                Call_order_by(Len(qs), fields)
          \/ Call_limit(Len(qs), IntV(1))
          \/ Call_offset(Len(qs), IntV(1))
          \/ Call_distinct(Len(qs))
          \/ Call_values(Len(qs), <<"age">>)
    \/ \E b \in 1..Len(qs) :
          \/ \E kwargs \in QKwargs : Call_get(b, kwargs)
          \/ Call_delete(b)
    \/ \E age \in AgeValues, name \in NameValues : Model_create(age, name)
    \/ \E pk \in 1..(nextId - 1) : Model_delete(pk)

SpecQ == Init /\ [][NextQ]_vars

Unfiltered(b) == View(b).filters = <<>> /\ View(b).excludes = <<>>

\* C3: delete() on a builder with no filter and no exclusion raises
\* QueryError, sends no statement to the connection and leaves the rows of
\* the table as they were, whatever the builder's ordering, limit, offset,
\* distinct flag and projection.
C3_UnfilteredDeleteRefused ==
    [][last'.op = "delete" /\ Unfiltered(last'.self) =>
          /\ last'.exc = "QueryError"
          /\ last'.stmts = <<>>
          /\ table' = table]_vars

\* delete() was refused on a builder with a limit, with rows in the table
C3_Witness ==
    /\ last.op = "delete"
    /\ Unfiltered(last.self)
    /\ View(last.self).limit # NoneV
    /\ last.exc = "QueryError"
    /\ table # <<>>

\* the outcome of get() against the n rows that statement q yields
C4_Outcome(call, v, q, rows) ==
    /\ call.stmts = <<Stmt(q.sql, q.params, TRUE, rows)>>
    /\ Len(rows) = 1 =>
          call.exc = "none" /\ call.ret = _create_instance(v, rows[1])
    /\ Len(rows) = 0 => call.exc = "DoesNotExist" /\ call.ret = NoneV
    /\ Len(rows) > 1 =>
          call.exc = "MultipleObjectsReturned" /\ call.ret = NoneV

C4_Statement(call, v, q) ==
    SelectOk(q.sql, q.params) =>
        C4_Outcome(call, v, q, SelectRows(q.sql, q.params, table))

C4_Filtered(call, v) == C4_Statement(call, v, _build_sql(v))

IsPk(kwargs, k) == kwargs = <<(<<(<<"id">>), IntV(k)>>)>>

\* C4: get(lookups) runs the receiver's query with the lookups added to its
\* filters; when the engine accepts the statement, one row gives that
\* record, no row gives DoesNotExist and several rows give
\* MultipleObjectsReturned.  On the manager's builder, get(id=k) for a
\* record that was created and deleted raises DoesNotExist.
C4_GetExactlyOne ==
    last.op = "get" =>
        /\ C4_Filtered(last, Made(filter(qs[last.self], lists, last.args)))
        /\ \A k \in 1..(nextId - 1) :
              /\ last.self = 1
              /\ IsPk(last.args, k)
              /\ \A i \in 1..Len(table) : table[i].id # IntV(k)
              => last.exc = "DoesNotExist"

\* get(id=1) on the manager's builder after record 1 was deleted, another
\* record being left in the table
C4_Witness ==
    /\ last.op = "get"
    /\ last.self = 1
    /\ IsPk(last.args, 1)
    /\ nextId > 1
    /\ table # <<>>
    /\ \A i \in 1..Len(table) : table[i].id # IntV(1)
    /\ last.exc = "DoesNotExist"

(***************************************************************************)
(* base/migrations.py: the operations.                                     *)
(***************************************************************************)
MaxOps == 2          \* operations in one migration file
MaxFiles == 3        \* migration files in the directory
MaxSteps == 2        \* the largest argument rollback() is called with

\* the catalog is a set of tables [name, cols]
HasTable(s, t) == \E r \in s : r.name = t
ColumnsOf(s, t) == (CHOOSE r \in s : r.name = t).cols
Without(s, t) == {r \in s : r.name # t}

\* the engine on CREATE TABLE IF NOT EXISTS t (fields): an empty or
\* repeating column list is an error, an existing table is left alone
CreateTableSql(s, t, fields) ==
    IF fields = <<>> \/ \E i, j \in 1..Len(fields) : i # j /\ fields[i] = fields[j]
    THEN [ok |-> FALSE, schema |-> s]
    ELSE IF HasTable(s, t) THEN [ok |-> TRUE, schema |-> s]
    ELSE [ok |-> TRUE, schema |-> s \cup {[name |-> t, cols |-> fields]}]

\* the engine on DROP TABLE IF EXISTS t
DropTableSql(s, t) == [ok |-> TRUE, schema |-> Without(s, t)]

\* the engine on ALTER TABLE t ADD COLUMN c ...: no such table and a
\* duplicate column name are errors
AddColumnSql(s, t, c) ==
    IF ~HasTable(s, t) THEN [ok |-> FALSE, schema |-> s]
    ELSE IF \E i \in 1..Len(ColumnsOf(s, t)) : ColumnsOf(s, t)[i] = c
    THEN [ok |-> FALSE, schema |-> s]
    ELSE [ok |-> TRUE,
          schema |-> Without(s, t)
                     \cup {[name |-> t, cols |-> Append(ColumnsOf(s, t), c)]}]

\* connection.execute(sql) of one statement: sqlite3.Error becomes
\* ConnectionError; DDL is not held back by a transaction
Ran(r) ==
    [exc |-> IF r.ok THEN "none" ELSE "ConnectionError", schema |-> r.schema,
     stmts |-> 1]

\* the operation objects
CreateTable(table_name, fields) ==
    [kind |-> "CreateTable", table_name |-> table_name, fields |-> fields,
     column_name |-> ""]

DropTable(table_name) ==
    [kind |-> "DropTable", table_name |-> table_name, fields |-> <<>>,
     column_name |-> ""]

AddColumn(table_name, column_name) ==
    [kind |-> "AddColumn", table_name |-> table_name, fields |-> <<>>,
     column_name |-> column_name]

CreateTable_apply(op, s) == Ran(CreateTableSql(s, op.table_name, op.fields))

\* a reverse that executes a statement which drops nothing
CreateTable_reverse_keeps(op, s) == Ran([ok |-> TRUE, schema |-> s])

CreateTable_reverse(op, s) == Ran(DropTableSql(s, op.table_name))

DropTable_apply(op, s) == Ran(DropTableSql(s, op.table_name))

\* a reverse that puts a table of that name back
DropTable_reverse_recreates(op, s) ==
    Ran(CreateTableSql(s, op.table_name, <<"id">>))

DropTable_reverse(op, s) ==
    [exc |-> "MigrationError", schema |-> s, stmts |-> 0]

AddColumn_apply(op, s) ==
    Ran(AddColumnSql(s, op.table_name, op.column_name))

AddColumn_reverse(op, s) ==
    [exc |-> "MigrationError", schema |-> s, stmts |-> 0]

\* operation.apply(connection) / operation.reverse(connection), dispatched
\* on the class of the operation
Operation_apply(op, s) ==
    CASE op.kind = "CreateTable" -> CreateTable_apply(op, s)
      [] op.kind = "DropTable" -> DropTable_apply(op, s)
      [] op.kind = "AddColumn" -> AddColumn_apply(op, s)

Operation_reverse(op, s) ==
    CASE op.kind = "CreateTable" -> CreateTable_reverse(op, s)
      [] op.kind = "DropTable" -> DropTable_reverse(op, s)
      [] op.kind = "AddColumn" -> AddColumn_reverse(op, s)

(***************************************************************************)
(* Migration: what one call did is kept as a trace of events, in order.    *)
(***************************************************************************)
\* e is "apply" / "reverse" (operation i of migration m ran), "fail"
\* (operation i raised), "commit" (the migration's commit), "ledger" (its
\* row inserted) or "unledger" (its row deleted)
Event(e, m, i) == [e |-> e, m |-> m, i |-> i]

After(e, r) == [r EXCEPT !.trace = <<e>> \o @]

RECURSIVE ApplyFrom(_, _, _, _)
RECURSIVE ReverseFrom(_, _, _, _)

\* operation i was applied with result r: an exception leaves the loop
ApplyNext(name, operations, i, r) ==
    IF r.exc # "none"
    THEN [exc |-> r.exc, schema |-> r.schema,
          trace |-> <<Event("fail", name, i)>>]
    ELSE After(Event("apply", name, i),
               ApplyFrom(name, operations, i + 1, r.schema))

\* for operation in self.operations (from the i-th on): operation.apply;
\* then connection.commit()
ApplyFrom(name, operations, i, s) ==
    IF i > Len(operations)
    THEN [exc |-> "none", schema |-> s, trace |-> <<Event("commit", name, 0)>>]
    ELSE ApplyNext(name, operations, i, Operation_apply(operations[i], s))

\* Migration.apply
Migration_apply(name, operations, s) == ApplyFrom(name, operations, 1, s)

ReverseNext(name, operations, i, r) ==
    IF r.exc # "none"
    THEN [exc |-> r.exc, schema |-> r.schema,
          trace |-> <<Event("fail", name, i)>>]
    ELSE After(Event("reverse", name, i),
               ReverseFrom(name, operations, i - 1, r.schema))

\* for operation in reversed(self.operations) (from the i-th down):
\* operation.reverse; then connection.commit()
ReverseFrom(name, operations, i, s) ==
    IF i < 1
    THEN [exc |-> "none", schema |-> s, trace |-> <<Event("commit", name, 0)>>]
    ELSE ReverseNext(name, operations, i, Operation_reverse(operations[i], s))

\* Migration.reverse
Migration_reverse(name, operations, s) ==
    ReverseFrom(name, operations, Len(operations), s)

(***************************************************************************)
(* MigrationManager.                                                       *)
(***************************************************************************)
Range(f) == {f[i] : i \in DOMAIN f}

\* the names of the migration files, and the operations a file evaluates to
Names(fs) == {f.name : f \in fs}
OperationsOf(fs, name) == (CHOOSE f \in fs : f.name = name).operations

LedgerTable ==
    [name |-> "_migrations", cols |-> <<"id", "name", "applied_at">>]

\* CREATE TABLE IF NOT EXISTS _migrations (...)
create_migrations_table(s) ==
    IF HasTable(s, "_migrations") THEN s ELSE s \cup {LedgerTable}

\* INSERT INTO _migrations (name) VALUES (?) that inserts nothing
mark_migration_applied_forgets(l, name) == l

\* INSERT INTO _migrations (name) VALUES (?); commit
mark_migration_applied(l, name) == Append(l, name)

\* DELETE FROM _migrations WHERE name = ?; commit
mark_migration_unapplied(l, name) == SelectSeq(l, LAMBDA n : n # name)

Least(S) == CHOOSE x \in S : \A y \in S \ {x} : SeqLess(x, y)
Greatest(S) == CHOOSE x \in S : \A y \in S \ {x} : SeqLess(y, x)

RECURSIVE sorted_descending(_)
\* the names, the greatest first
sorted_descending(S) ==
    IF S = {} THEN <<>>
    ELSE <<Greatest(S)>> \o sorted_descending(S \ {Greatest(S)})

RECURSIVE sorted(_)
\* sorted([...]) of the file names: strings, in lexicographic order
sorted(S) ==
    IF S = {} THEN <<>> ELSE <<Least(S)>> \o sorted(S \ {Least(S)})

\* pending = [m for m in migration_files if m not in applied]
pending(fs, l) == SelectSeq(sorted(Names(fs)), LAMBDA m : m \notin Range(l))

Then(prefix, r) == [r EXCEPT !.trace = prefix \o @]

RECURSIVE MigrateFrom(_, _, _, _)

\* a loop body that goes on to the next migration after a failure
MigrateNext_continues(pend, fs, l, r) ==
    IF r.exc # "none"
    THEN Then(r.trace, MigrateFrom(Tail(pend), fs, r.schema, l))
    ELSE Then(r.trace \o <<Event("ledger", pend[1], 0)>>,
              MigrateFrom(Tail(pend), fs, r.schema,
                          mark_migration_applied(l, pend[1])))

\* the try block of migrate(): migration.apply gave r; an exception is
\* raised again as MigrationError, else the migration is marked applied
MigrateNext(pend, fs, l, r) ==
    IF r.exc # "none"
    THEN [exc |-> "MigrationError", schema |-> r.schema, ledger |-> l,
          trace |-> r.trace]
    ELSE Then(r.trace \o <<Event("ledger", pend[1], 0)>>,
              MigrateFrom(Tail(pend), fs, r.schema,
                          mark_migration_applied(l, pend[1])))

\* for migration_name in pending: load the file, apply, mark applied
MigrateFrom(pend, fs, s, l) ==
    IF pend = <<>>
    THEN [exc |-> "none", schema |-> s, ledger |-> l, trace |-> <<>>]
    ELSE MigrateNext(pend, fs, l,
                     Migration_apply(pend[1], OperationsOf(fs, pend[1]), s))

\* MigrationManager.migrate
migrate(fs, s, l) ==
    MigrateFrom(pending(fs, l), fs, create_migrations_table(s), l)

\* the index a slice starts at: a negative start counts from the end
SliceStart(k, n) ==
    IF k < 0 THEN (IF k + n < 0 THEN 0 ELSE k + n)
    ELSE (IF k > n THEN n ELSE k)

\* applied[-steps:]
LastSteps(applied, steps) ==
    SubSeq(applied, SliceStart(0 - steps, Len(applied)) + 1, Len(applied))

Reversed(q) == [i \in 1..Len(q) |-> q[Len(q) + 1 - i]]

RECURSIVE RollbackFrom(_, _, _, _)

\* a loop body that goes on to the migration before after a failure
RollbackNext_continues(names, fs, l, r) ==
    IF r.exc # "none"
    THEN Then(r.trace, RollbackFrom(Tail(names), fs, r.schema, l))
    ELSE Then(r.trace \o <<Event("unledger", names[1], 0)>>,
              RollbackFrom(Tail(names), fs, r.schema,
                           mark_migration_unapplied(l, names[1])))

\* the try block of rollback(): migration.reverse gave r
RollbackNext(names, fs, l, r) ==
    IF r.exc # "none"
    THEN [exc |-> "MigrationError", schema |-> r.schema, ledger |-> l,
          trace |-> r.trace]
    ELSE Then(r.trace \o <<Event("unledger", names[1], 0)>>,
              RollbackFrom(Tail(names), fs, r.schema,
                           mark_migration_unapplied(l, names[1])))

\* for migration_name in reversed(to_rollback): load, reverse, mark unapplied
RollbackFrom(names, fs, s, l) ==
    IF names = <<>>
    THEN [exc |-> "none", schema |-> s, ledger |-> l, trace |-> <<>>]
    ELSE RollbackNext(names, fs, l,
                      Migration_reverse(names[1], OperationsOf(fs, names[1]), s))

\* MigrationManager.rollback: get_applied_migrations reads _migrations, and
\* without that table the connection's error comes out as it is
rollback(steps, fs, s, l) ==
    IF ~HasTable(s, "_migrations")
    THEN [exc |-> "ConnectionError", schema |-> s, ledger |-> l, trace |-> <<>>]
    ELSE IF l = <<>>
    THEN [exc |-> "none", schema |-> s, ledger |-> l, trace |-> <<>>]
    ELSE RollbackFrom(Reversed(LastSteps(l, steps)), fs, s, l)

(***************************************************************************)
(* SpecMig: migration files are written, migrate() and rollback() run, and *)
(* operations are applied and reversed by hand.                            *)
(***************************************************************************)
\* file names are strings of digits: "1" < "10" < "2"
MigrationNames == {<<1>>, <<1, 0>>, <<2>>}

Operations ==
    {CreateTable("a", <<"x">>), DropTable("a"), AddColumn("a", "y")}

RECURSIVE ListsOf(_, _)
ListsOf(S, n) ==
    IF n = 0 THEN {<<>>}
    ELSE ListsOf(S, n - 1)
         \cup {Append(l, x) : l \in {k \in ListsOf(S, n - 1) : Len(k) = n - 1},
                              x \in S}

MCalled(op, arg, exc, trace) ==
    [op |-> op, arg |-> arg, exc |-> exc, trace |-> trace]

\* create_migration_file(name, operations) under a name not yet taken
Call_create_migration_file(name, operations) ==
    /\ Cardinality(files) < MaxFiles
    /\ name \notin Names(files)
    /\ files' = files \cup {[name |-> name, operations |-> operations]}
    /\ mlast' = MCalled("create_migration_file", name, "none", <<>>)
    /\ UNCHANGED <<ledger, schema>>
    /\ UNCHANGED <<qvars, conn, objs, disk>>

MigrateDone(r) ==
    /\ schema' = r.schema
    /\ ledger' = r.ledger
    /\ mlast' = MCalled("migrate", NoneV, r.exc, r.trace)
    /\ UNCHANGED files
    /\ UNCHANGED <<qvars, conn, objs, disk>>

Call_migrate == MigrateDone(migrate(files, schema, ledger))

RollbackDone(steps, r) ==
    /\ schema' = r.schema
    /\ ledger' = r.ledger
    /\ mlast' = MCalled("rollback", steps, r.exc, r.trace)
    /\ UNCHANGED files
    /\ UNCHANGED <<qvars, conn, objs, disk>>

Call_rollback(steps) == RollbackDone(steps, rollback(steps, files, schema, ledger))

\* operation.apply(connection) or operation.reverse(connection), by hand
OperationDone(name, op, r) ==
    /\ schema' = r.schema
    /\ mlast' = MCalled(name, op, r.exc,
                        IF r.stmts = 0 THEN <<>> ELSE <<Event(name, <<>>, 0)>>)
    /\ UNCHANGED <<files, ledger>>
    /\ UNCHANGED <<qvars, conn, objs, disk>>

Call_apply(op) == OperationDone("apply", op, Operation_apply(op, schema))

Call_reverse(op) == OperationDone("reverse", op, Operation_reverse(op, schema))

NextMig ==
    \/ \E name \in MigrationNames, operations \in ListsOf(Operations, MaxOps) :
          Call_create_migration_file(name, operations)
    \/ Call_migrate
    \/ \E steps \in 0..MaxSteps : Call_rollback(steps)
    \/ \E op \in Operations : Call_apply(op)
    \/ \E op \in Operations : Call_reverse(op)

SpecMig == Init /\ [][NextMig]_vars

(***************************************************************************)
(* Claims about migrate().                                                 *)
(***************************************************************************)
\* C5: a migrate() call that follows at once a migrate() call that
\* completed, the migration files being the same, completes too, applies
\* no migration and executes no operation (its trace is empty), and leaves
\* the ledger and the schema as they were.
C5_MigrateIdempotent ==
    [][mlast.op = "migrate" /\ mlast.exc = "none" /\ mlast'.op = "migrate" =>
          /\ mlast'.exc = "none"
          /\ mlast'.trace = <<>>
          /\ ledger' = ledger
          /\ schema' = schema
          /\ files' = files]_vars

\* a migrate() call that found every file applied, two of them
C5_Witness ==
    /\ mlast.op = "migrate"
    /\ mlast.exc = "none"
    /\ mlast.trace = <<>>
    /\ Len(ledger) = 2
    /\ Range(ledger) = Names(files)

RECURSIVE Ledgered(_)
\* the names of the "ledger" events of trace T, in order
Ledgered(T) ==
    IF T = <<>> THEN <<>>
    ELSE (IF T[1].e = "ledger" THEN <<T[1].m>> ELSE <<>>) \o Ledgered(Tail(T))

\* event j is the first event of its migration
Opens(T, j) == j = 1 \/ T[j - 1].m # T[j].m

\* the events of T come migration after migration in ascending name order,
\* each migration as operation 1, 2, ..., its commit and then its ledger
\* row, a new migration opening only after the ledger row of the one before
C6_Ordered(T, fs) ==
    \A j \in 1..Len(T) :
        /\ T[j].e \in {"apply", "fail", "commit", "ledger"}
        /\ j > 1 /\ T[j - 1].m # T[j].m =>
              SeqLess(T[j - 1].m, T[j].m) /\ T[j - 1].e = "ledger"
        /\ T[j].e \in {"apply", "fail"} =>
              IF T[j].i = 1 THEN Opens(T, j)
              ELSE j > 1 /\ T[j - 1] = Event("apply", T[j].m, T[j].i - 1)
        /\ T[j].e = "commit" =>
              IF OperationsOf(fs, T[j].m) = <<>> THEN Opens(T, j)
              ELSE /\ j > 1
                   /\ T[j - 1] = Event("apply", T[j].m,
                                       Len(OperationsOf(fs, T[j].m)))
        /\ T[j].e = "ledger" => j > 1 /\ T[j - 1] = Event("commit", T[j].m, 0)

\* the migrations of T are pending ones (files not in ledger l), none is
\* passed over, all of them are applied when the call completes, and the
\* ledger after, l2, has their rows in that order after the rows of l
C6_Pending(T, fs, l, l2, exc) ==
    /\ \A j \in 1..Len(T) : T[j].m \in Names(fs) \ Range(l)
    /\ l2 = l \o Ledgered(T)
    /\ \A m, n \in Names(fs) \ Range(l) :
          SeqLess(m, n) /\ (\E j \in 1..Len(T) : T[j].m = n)
          => Event("ledger", m, 0) \in Range(T)
    /\ exc = "none" =>
          \A m \in Names(fs) \ Range(l) : Event("ledger", m, 0) \in Range(T)

\* C6: one migrate() call applies the pending migrations (the files whose
\* name is not in the ledger) in ascending name order, the operations of
\* each in declaration order, and appends a migration's ledger row after
\* all its operations were applied and committed and before the first
\* operation of the next migration.
C6_MigrateInOrder ==
    [][mlast'.op = "migrate" =>
          /\ C6_Ordered(mlast'.trace, files)
          /\ C6_Pending(mlast'.trace, files, ledger, ledger',
                        mlast'.exc)]_vars

\* one call applied the files "10" and "2", in that order, and a second
\* operation of one of them
C6_Witness ==
    /\ mlast.op = "migrate"
    /\ Ledgered(mlast.trace) = <<(<<1, 0>>), (<<2>>)>>
    /\ \E j \in 1..Len(mlast.trace) :
          mlast.trace[j].e = "apply" /\ mlast.trace[j].i = 2

\* C7: when an operation of a pending migration fails, migrate() raises
\* MigrationError; the failure is the last event of the call, so that no
\* ledger row is written for the failing migration and no later pending
\* migration is attempted; and the rows of the migrations the call had
\* applied before are in the ledger.
C7_FailureHalts ==
    /\ mlast.op = "migrate"
    /\ \/ mlast.exc # "none"
       \/ \E j \in 1..Len(mlast.trace) : mlast.trace[j].e = "fail"
    =>  /\ mlast.exc = "MigrationError"
        /\ mlast.trace # <<>>
        /\ mlast.trace[Len(mlast.trace)].e = "fail"
        /\ mlast.trace[Len(mlast.trace)].m \notin Range(ledger)
        /\ \A j \in 1..Len(mlast.trace) :
              /\ j < Len(mlast.trace) => mlast.trace[j].e # "fail"
              /\ \/ mlast.trace[j].m = mlast.trace[Len(mlast.trace)].m
                 \/ SeqLess(mlast.trace[j].m, mlast.trace[Len(mlast.trace)].m)
              /\ mlast.trace[j].e = "ledger" =>
                    mlast.trace[j].m \in Range(ledger)

\* a call applied one migration, failed in the next, and left a third
\* pending
C7_Witness ==
    /\ mlast.op = "migrate"
    /\ mlast.exc = "MigrationError"
    /\ Len(Ledgered(mlast.trace)) = 1
    /\ \E n \in Names(files) \ Range(ledger) :
          SeqLess(mlast.trace[Len(mlast.trace)].m, n)

RECURSIVE FullyApplied(_, _, _)
\* the schema after every operation of the migrations `names` is applied
FullyApplied(names, fs, s) ==
    IF names = <<>> THEN s
    ELSE FullyApplied(Tail(names), fs,
           Migration_apply(names[1], OperationsOf(fs, names[1]), s).schema)

\* C8: after migrate() returns or raises, every migration is either fully
\* applied, its name in the ledger, or not applied at all, its name absent:
\* the schema is the one that the operations of the migrations the call
\* added to the ledger, all of them and no other, make of the schema before.
C8_AllOrNothing ==
    [][mlast'.op = "migrate" =>
          schema' = FullyApplied(SubSeq(ledger', Len(ledger) + 1, Len(ledger')),
                                 files, create_migrations_table(schema))]_vars

(***************************************************************************)
(* Claims about rollback() and the operations' reverse.                    *)
(***************************************************************************)
\* every operation of every applied migration has a reverse that works
Reversible(fs, l) ==
    \A i \in 1..Len(l) :
        \A j \in 1..Len(OperationsOf(fs, l[i])) :
            OperationsOf(fs, l[i])[j].kind = "CreateTable"

RECURSIVE Unledgered(_)
Unledgered(T) ==
    IF T = <<>> THEN <<>>
    ELSE (IF T[1].e = "unledger" THEN <<T[1].m>> ELSE <<>>)
         \o Unledgered(Tail(T))

Min(a, b) == IF a < b THEN a ELSE b

\* rollback(n) on ledger l: the rows of the last min(n, k) migrations are
\* deleted, latest first, the operations of each reversed from the last to
\* the first, and the other rows stay
C9_Reversed(n, T, fs, l, l2) ==
    /\ l2 = SubSeq(l, 1, Len(l) - Min(n, Len(l)))
    /\ Unledgered(T) = Reversed(SubSeq(l, Len(l) - Min(n, Len(l)) + 1, Len(l)))
    /\ \A j \in 1..Len(T) :
          T[j].e = "reverse" =>
             IF T[j].i = Len(OperationsOf(fs, T[j].m)) THEN Opens(T, j)
             ELSE j > 1 /\ T[j - 1] = Event("reverse", T[j].m, T[j].i + 1)

\* C9: for every n >= 0 and a ledger of k applied migrations whose
\* operations are all reversible, rollback(n) reverses the last min(n, k)
\* migrations in ledger order, latest first, each one's operations in
\* reverse declaration order, and deletes those ledger rows and no other;
\* when that is no migration, the schema stays as it is.
C9_RollbackLastN ==
    [][mlast'.op = "rollback" /\ Reversible(files, ledger) =>
          /\ C9_Reversed(mlast'.arg, mlast'.trace, files, ledger, ledger')
          /\ Min(mlast'.arg, Len(ledger)) = 0 => schema' = schema]_vars

\* The same of the calls rollback(n) with n >= 1.
RollbackLastPositive ==
    [][mlast'.op = "rollback" /\ Reversible(files, ledger)
       /\ mlast'.arg >= 1 =>
          C9_Reversed(mlast'.arg, mlast'.trace, files, ledger, ledger')]_vars

\* C10: DropTable.reverse and AddColumn.reverse raise MigrationError
\* whatever the table, the column and the state of the database, execute
\* no statement and leave the schema as it is.
C10_ReverseRefused ==
    [][mlast'.op = "reverse" /\ mlast'.arg.kind \in {"DropTable", "AddColumn"} =>
          /\ mlast'.exc = "MigrationError"
          /\ mlast'.trace = <<>>
          /\ schema' = schema]_vars

\* AddColumn.reverse was called while the table has the column
C10_Witness ==
    /\ mlast.op = "reverse"
    /\ mlast.arg.kind = "AddColumn"
    /\ mlast.exc = "MigrationError"
    /\ HasTable(schema, "a")
    /\ ColumnsOf(schema, "a") = <<"x", "y">>

(***************************************************************************)
(* MigrationManager.auto_detect_changes.  A model class is its table name  *)
(* and the columns of its fields, in declaration order.                    *)
(***************************************************************************)
MaxModels == 2       \* model classes passed to auto_detect_changes

RECURSIVE NewColumns(_, _, _)
\* for field in model._fields.values(): an AddColumn if the column is not
\* among the existing columns
NewColumns(table_name, fields, existing_columns) ==
    IF fields = <<>> THEN <<>>
    ELSE (IF fields[1] \in existing_columns THEN <<>>
          ELSE <<AddColumn(table_name, fields[1])>>)
         \o NewColumns(table_name, Tail(fields), existing_columns)

\* the body of the loop over the models
DetectModel(model, s) ==
    IF ~HasTable(s, model.table_name)
    THEN <<CreateTable(model.table_name, model.fields)>>
    ELSE NewColumns(model.table_name, model.fields,
                    Range(ColumnsOf(s, model.table_name)))

RECURSIVE auto_detect_changes(_, _)
\* MigrationManager.auto_detect_changes: the operations, in order
auto_detect_changes(models, s) ==
    IF models = <<>> THEN <<>>
    ELSE DetectModel(models[1], s) \o auto_detect_changes(Tail(models), s)

\* the call reads sqlite_master and PRAGMA table_info, and writes nothing
Call_auto_detect_changes(models) ==
    /\ mlast' = [op |-> "auto_detect_changes", arg |-> models, exc |-> "none",
                 trace |-> <<>>, ret |-> auto_detect_changes(models, schema)]
    /\ UNCHANGED <<files, ledger, schema>>
    /\ UNCHANGED <<qvars, conn, objs, disk>>

(***************************************************************************)
(* SpecOps: operations applied and reversed by hand on two tables, and     *)
(* auto_detect_changes run against the catalog they leave.                 *)
(***************************************************************************)
OpsByHand ==
    {CreateTable("a", <<"x">>), CreateTable("a", <<"x", "y">>),
     CreateTable("a", <<>>), CreateTable("b", <<"x">>),
     DropTable("a"), DropTable("b"), AddColumn("a", "y"), AddColumn("b", "y")}

ModelClasses ==
    {[table_name |-> "a", fields |-> <<"x">>],
     [table_name |-> "a", fields |-> <<"x", "y">>],
     [table_name |-> "b", fields |-> <<"x", "y">>],
     [table_name |-> "c", fields |-> <<"id">>]}

NextOps ==
    \/ \E op \in OpsByHand : Call_apply(op)
    \/ \E op \in OpsByHand : Call_reverse(op)
    \/ \E models \in ListsOf(ModelClasses, MaxModels) :
          Call_auto_detect_changes(models)

SpecOps == Init /\ [][NextOps]_vars

\* C11: whatever the schema, and whether or not a table named t exists in
\* it, CreateTable(t, defs).apply followed by the reverse of the same
\* operation leaves no table named t; the reverse raises nothing.
C11_CreateThenReverse ==
    [][/\ mlast.op = "apply"
       /\ mlast.arg.kind = "CreateTable"
       /\ mlast'.op = "reverse"
       /\ mlast'.arg = mlast.arg
       => /\ ~HasTable(schema', mlast.arg.table_name)
          /\ mlast'.exc = "none"]_vars

\* CreateTable("a", ...) was reversed: table a is gone, table b is there
C11_Witness ==
    /\ mlast.op = "reverse"
    /\ mlast.arg.kind = "CreateTable"
    /\ mlast.arg.table_name = "a"
    /\ ~HasTable(schema, "a")
    /\ HasTable(schema, "b")

\* the tables the models declare, and the columns declared for a table
DeclaredTables(models) == {models[i].table_name : i \in DOMAIN models}

DeclaredColumns(models, t) ==
    UNION {Range(models[i].fields) :
              i \in {j \in DOMAIN models : models[j].table_name = t}}

\* the positions of the returned list holding a CreateTable of t, and those
\* holding an AddColumn of column c to t
CreatesOf(ret, t) ==
    {i \in DOMAIN ret : ret[i].kind = "CreateTable" /\ ret[i].table_name = t}

AddsOf(ret, t, c) == {i \in DOMAIN ret : ret[i] = AddColumn(t, c)}

\* the operation answers a declaration the database does not satisfy
Called_for(op, models, s) ==
    /\ op.table_name \in DeclaredTables(models)
    /\ \/ op.kind = "CreateTable" /\ ~HasTable(s, op.table_name)
       \/ /\ op.kind = "AddColumn"
          /\ HasTable(s, op.table_name)
          /\ op.column_name \in DeclaredColumns(models, op.table_name)
          /\ op.column_name \notin Range(ColumnsOf(s, op.table_name))

Detected(models, s, ret) ==
    /\ \A t \in DeclaredTables(models) :
          IF ~HasTable(s, t)
          THEN /\ Cardinality(CreatesOf(ret, t)) = 1
               /\ \A i \in CreatesOf(ret, t) :
                     Range(ret[i].fields) = DeclaredColumns(models, t)
          ELSE \A c \in DeclaredColumns(models, t) \ Range(ColumnsOf(s, t)) :
                     Cardinality(AddsOf(ret, t, c)) = 1
    /\ \A i \in DOMAIN ret :
          ret[i].kind # "DropTable" /\ Called_for(ret[i], models, s)

\* C12: auto_detect_changes(models) returns exactly one CreateTable with
\* every declared column for each declared table the database lacks,
\* exactly one AddColumn for each declared column an existing declared
\* table lacks, nothing for what is not declared, never a DropTable, and
\* leaves the database as it was.
C12_DetectsExactly ==
    [][mlast'.op = "auto_detect_changes"
       => /\ Detected(mlast'.arg, schema, mlast'.ret)
          /\ schema' = schema
          /\ ledger' = ledger]_vars

\* the same, for models that declare pairwise different tables
DistinctTables(models) ==
    Cardinality(DeclaredTables(models)) = Len(models)

C12_DetectsDistinct ==
    [][mlast'.op = "auto_detect_changes" /\ DistinctTables(mlast'.arg)
       => /\ Detected(mlast'.arg, schema, mlast'.ret)
          /\ schema' = schema
          /\ ledger' = ledger]_vars

\* the call ran the statement built from builder value v against tbl
RanOwnSql(call, v, e) ==
    /\ call.stmts = e.stmts
    /\ Len(call.stmts) = 1
    /\ call.exc = e.exc
    /\ call.ret = Instances(v, e.rows)

\* C14: the builder a chaining method returns has no cached rows, also when
\* the receiver has, and the first all() of a builder without cached rows
\* executes the SQL built from that builder against the table as it is then.
C14_CloneRecomputes ==
    [][/\ Len(qs') # Len(qs) => qs'[Len(qs')].cache = NoneV
       /\ last'.op = "all" /\ last' # last /\ qs[last'.self].cache = NoneV
          => RanOwnSql(last', View(last'.self),
                       Executed(_build_sql(View(last'.self)), table))]_vars

\* the first builder cached one row; the builder chained from it is
\* evaluated after a second row was inserted and returns both rows
C14_Witness ==
    /\ Len(qs) >= 2
    /\ qs[1].cache # NoneV
    /\ Len(qs[1].cache.v) = 1
    /\ last.op = "all"
    /\ last.self = 2
    /\ last.exc = "none"
    /\ Len(last.ret) = 2
    /\ Len(last.stmts) = 1

\* the way the claim renders an exclusion of lookup (field_name, operator,
\* value): NOT IN, the flipped NULL test, or the filter form inside NOT (...)
NegatedForm(field_name, operator, value) ==
    CASE operator = "in" ->
            <<Ident(field_name), Kw("NOT"), Kw("IN"), Kw("(")>>
            \o Placeholders(Len(value.v)) \o <<Kw(")")>>
      [] operator = "isnull" ->
            IF Truthy(value)
            THEN <<Ident(field_name), Kw("IS"), Kw("NOT"), Kw("NULL")>>
            ELSE <<Ident(field_name), Kw("IS"), Kw("NULL")>>
      [] OTHER ->
            <<Kw("NOT"), Kw("(")>>
            \o FilterCondition(field_name, operator, value).cond
            \o <<Kw(")")>>

\* conditions is the WHERE clause of a builder with the given filters and
\* exclusions, and text the string made of it
ExclusionsNegated(filters, excludes, conditions, params, text) ==
    /\ Len(conditions) = Len(filters) + Len(excludes)
    /\ \A j \in 1..Len(excludes) :
          /\ conditions[Len(filters) + j]
                 = NegatedForm(excludes[j][1], excludes[j][2], excludes[j][3])
          /\ excludes[j][2] = "isnull"
                 => Segment(conditions, params, Len(filters) + j) = <<>>
    /\ text = IF conditions = <<>> THEN <<>>
              ELSE <<Kw("WHERE")>> \o JoinTokens(conditions, Kw("AND"))

\* C17: in the WHERE clause an exclusion with `in` reads field NOT IN (...),
\* an exclusion with `isnull` is the flipped NULL test without a parameter,
\* an exclusion with any other operator is the filter form of that operator
\* inside NOT (...), and all conditions are joined by AND.
C17_ExclusionForms ==
    \A b \in 1..Len(qs) :
        ExclusionsNegated(View(b).filters, View(b).excludes,
                          _build_where_clause(View(b)).conditions,
                          _build_where_clause(View(b)).params,
                          WhereText(_build_where_clause(View(b)).conditions))

\* the same, for builders without a `range` exclusion
NoRangeExcluded(b) ==
    \A j \in 1..Len(View(b).excludes) : View(b).excludes[j][2] # "range"

C17_ExclusionFormsButRange ==
    \A b \in 1..Len(qs) :
        NoRangeExcluded(b) =>
        ExclusionsNegated(View(b).filters, View(b).excludes,
                          _build_where_clause(View(b)).conditions,
                          _build_where_clause(View(b)).params,
                          WhereText(_build_where_clause(View(b)).conditions))

\* the j-th lookup, when it is a `range` given a pair, is a BETWEEN with two
\* placeholders filled by the pair
RangeIsBetween(triples, conditions, params, j) ==
    triples[j][2] = "range" /\ Len(triples[j][3].v) = 2
    => /\ Kw("BETWEEN") \in Range(conditions[j])
       /\ CountPlaceholders(conditions[j]) = 2
       /\ Segment(conditions, params, j) = triples[j][3].v

\* C18: every `range` lookup, added through filter() or through exclude(),
\* is a BETWEEN comparison with exactly two placeholders and puts exactly
\* its two bound values, in order, into the parameter list.
C18_RangeTwoPlaceholders ==
    \A b \in 1..Len(qs) :
        \A j \in 1..Len(View(b).filters \o View(b).excludes) :
            RangeIsBetween(View(b).filters \o View(b).excludes,
                           _build_where_clause(View(b)).conditions,
                           _build_where_clause(View(b)).params, j)

\* the same, for builders whose `range` lookups were all added through
\* filter() and given pairs
C18_FilterRangeTwoPlaceholders ==
    \A b \in 1..Len(qs) :
        View(b).excludes = <<>> /\ PairRanges(b) =>
        \A j \in 1..Len(View(b).filters) :
            RangeIsBetween(View(b).filters,
                           _build_where_clause(View(b)).conditions,
                           _build_where_clause(View(b)).params, j)

(***************************************************************************)
(* The other terminal operations of QuerySet: first, last, indexing,       *)
(* iteration, exists and update.                                           *)
(***************************************************************************)
\* results[0] if results else None
FirstOrNone(results) ==
    [exc |-> results.exc, stmts |-> results.stmts,
     ret |-> IF results.exc = "none" /\ results.ret # <<>>
             THEN results.ret[1] ELSE NoneV]

\* QuerySet.first on object o: qs = self.limit(1); results = qs.all()
first(o, h, tbl) == FirstOrNone(all(Made(limit(o, h, IntV(1))), tbl))

\* an ordering element left as it is
Flip_keeps(f) == f

\* f'-{f}' if not f.startswith('-') else f[1:]
Flip(f) == IF StartsWithMinus(f) THEN Tail(f) ELSE <<"-">> \o f

RECURSIVE Flipped(_)
\* [... for f in (self._order_by or ['id'])]
Flipped(fields) ==
    IF fields = <<>> THEN <<>>
    ELSE <<Flip(fields[1])>> \o Flipped(Tail(fields))

\* the builder last() evaluates: self.order_by(*flipped).limit(1)
LastQuery(o, h, c) == limit(c[1], c[2], IntV(1))

\* QuerySet.last on object o
last_(o, h, tbl) ==
    FirstOrNone(all(Made(LastQuery(o, h,
        order_by(o, h, Flipped(IF h[o.order_by] = <<>> THEN <<(<<"id">>)>>
                               ELSE h[o.order_by])))), tbl))

\* raise IndexError("QuerySet index out of range") if not results
Indexed(results) ==
    IF results.exc = "none" /\ results.ret = <<>>
    THEN [exc |-> "IndexError", stmts |-> results.stmts, ret |-> NoneV]
    ELSE FirstOrNone(results)

\* the builder self.offset(key).limit(1)
OffsetLimit(c) == limit(c[1], c[2], IntV(1))

\* QuerySet.__getitem__ with an int key
__getitem__(o, h, key, tbl) ==
    Indexed(all(Made(OffsetLimit(offset(o, h, IntV(key)))), tbl))

\* QuerySet.__iter__: iter(self.all())
__iter__(v, tbl) == all(v, tbl)

\* sql.replace('SELECT *', 'SELECT 1', 1): the text has "SELECT *" only
\* when the statement begins with it
Replaced(sql) ==
    IF SubSeq(sql.select, 1, 2) = <<Kw("SELECT"), Kw("*")>>
    THEN [sql EXCEPT !.select = <<Kw("SELECT"), Kw("1")>>
                                \o SubSeq(sql.select, 3, Len(sql.select))]
    ELSE sql

\* cursor.fetchone() is not None
FetchedOne(sql, params, rows) ==
    [exc |-> "none", ret |-> BoolV(rows # <<>>),
     stmts |-> <<Stmt(sql, params, TRUE, rows)>>]

ExistsRun(sql, params, tbl) ==
    IF SelectOk(sql, params)
    THEN FetchedOne(sql, params, SelectRows(sql, params, tbl))
    ELSE [exc |-> "ConnectionError", ret |-> NoneV,
          stmts |-> <<Stmt(sql, params, FALSE, <<>>)>>]

\* QuerySet.exists on builder value v
exists(v, tbl) ==
    ExistsRun(Replaced(_build_sql(v).sql), _build_sql(v).params, tbl)

RECURSIVE SetParts(_)
\* ', '.join(set_parts), each part "{column} = ?"
SetParts(kwargs) ==
    IF kwargs = <<>> THEN <<>>
    ELSE <<Ident(<<kwargs[1][1]>>), Kw("="), Ph>>
         \o (IF Len(kwargs) = 1 THEN <<>> ELSE <<Kw(",")>>)
         \o SetParts(Tail(kwargs))

RECURSIVE SetParams(_)
\* set_params.append(field.to_db(value)): the value itself
SetParams(kwargs) ==
    IF kwargs = <<>> THEN <<>>
    ELSE <<kwargs[1][2]>> \o SetParams(Tail(kwargs))

UpdateSql(kwargs, conditions) ==
    [verb |-> "UPDATE", select |-> <<Kw("UPDATE"), Kw("SET")>> \o SetParts(kwargs),
     from |-> TableName, where |-> conditions, order |-> <<>>,
     limit |-> NoneV, offset |-> NoneV]

\* the row satisfies the WHERE clause
Matches(conditions, params, row) ==
    \A i \in 1..Len(conditions) :
        Cond3(conditions[i], SegmentsOf(conditions, params)[i], row) = "T"

RECURSIVE Assigned(_, _)
\* the row after SET column = value, ...
Assigned(row, kwargs) ==
    IF kwargs = <<>> THEN row
    ELSE Assigned([row EXCEPT ![kwargs[1][1]] = kwargs[1][2]], Tail(kwargs))

\* the table after UPDATE users SET ... WHERE ...
UpdateRows(kwargs, conditions, params, tbl) ==
    [i \in DOMAIN tbl |->
        IF Matches(conditions, params, tbl[i]) THEN Assigned(tbl[i], kwargs)
        ELSE tbl[i]]

\* cursor.rowcount: the rows the WHERE clause matched
RowCount(conditions, params, tbl) ==
    Cardinality({i \in DOMAIN tbl : Matches(conditions, params, tbl[i])})

\* connection.execute of the UPDATE, w the built WHERE clause
UpdateWhere(kwargs, w, tbl) ==
    IF kwargs # <<>> /\ WhereOk(w.conditions, w.params)
    THEN [exc |-> "none",
          table |-> UpdateRows(kwargs, w.conditions, w.params, tbl),
          ret |-> IntV(RowCount(w.conditions, w.params, tbl)),
          stmts |-> <<Stmt(UpdateSql(kwargs, w.conditions),
                           SetParams(kwargs) \o w.params, TRUE, <<>>)>>]
    ELSE [exc |-> "ConnectionError", table |-> tbl, ret |-> NoneV,
          stmts |-> <<Stmt(UpdateSql(kwargs, w.conditions),
                           SetParams(kwargs) \o w.params, FALSE, <<>>)>>]

\* field_name in self.model._fields
Declared(item) == item[1] \in Range(Fields)

\* update() that leaves the undeclared keys out of the SET clause
update_skipping(v, kwargs, tbl) ==
    IF kwargs = <<>>
    THEN [exc |-> "none", table |-> tbl, ret |-> IntV(0), stmts |-> <<>>]
    ELSE UpdateWhere(SelectSeq(kwargs, Declared), _build_where_clause(v), tbl)

\* QuerySet.update on builder value v
update(v, kwargs, tbl) ==
    IF kwargs = <<>>
    THEN [exc |-> "none", table |-> tbl, ret |-> IntV(0), stmts |-> <<>>]
    ELSE IF \E i \in 1..Len(kwargs) : ~Declared(kwargs[i])
    THEN [exc |-> "QueryError", table |-> tbl, ret |-> NoneV, stmts |-> <<>>]
    ELSE UpdateWhere(kwargs, _build_where_clause(v), tbl)

\* the calls: first, last, indexing and exists leave every builder as it
\* was; iteration caches on the builder; update writes the table
TerminalDone(op, b, args, r) ==
    /\ last' = Called(op, b, args, r.ret, r.exc, r.stmts)
    /\ UNCHANGED <<qs, lists, table, nextId>>
    /\ UNCHANGED <<mvars, conn, objs, disk>>

Call_first(b) == TerminalDone("first", b, <<>>, first(qs[b], lists, table))

Call_last(b) == TerminalDone("last", b, <<>>, last_(qs[b], lists, table))

Call_getitem(b, key) ==
    TerminalDone("getitem", b, <<key>>, __getitem__(qs[b], lists, key, table))

Call_exists(b) == TerminalDone("exists", b, <<>>, exists(View(b), table))

IterDone(b, r) ==
    /\ qs' = [qs EXCEPT ![b].cache = r.cache]
    /\ last' = Called("iter", b, <<>>, r.ret, r.exc, r.stmts)
    /\ UNCHANGED <<lists, table, nextId>>
    /\ UNCHANGED <<mvars, conn, objs, disk>>

Call_iter(b) == IterDone(b, __iter__(View(b), table))

UpdateDone(b, kwargs, r) ==
    /\ table' = r.table
    /\ last' = Called("update", b, kwargs, r.ret, r.exc, r.stmts)
    /\ disk' = Committed(r, disk)
    /\ UNCHANGED <<qs, lists, nextId>>
    /\ UNCHANGED <<mvars, conn, objs>>

Call_update(b, kwargs) == UpdateDone(b, kwargs, update(View(b), kwargs, table))

(***************************************************************************)
(* SpecT: the terminal operations on builders chained one from the other,  *)
(* against a table whose rows are inserted, updated and deleted.           *)
(***************************************************************************)
UpdateItems == {<<"age", IntV(2)>>, <<"bogus", IntV(1)>>}

UpdateKwargs == {k \in KwargsOf(UpdateItems, MaxKwargs) : DistinctKeys(k)}

MaxEvaluated == 2    \* builders in SpecT

NextT ==
    \/ /\ Len(qs) < MaxEvaluated
       /\ \/ Call_filter(Len(qs), <<(<<(<<"age">>), IntV(1)>>)>>)
          \/ \E fields \in {<<(<<"-", "age">>)>>, <<(<<"age">>)>>} :
                Call_order_by(Len(qs), fields)
          \/ Call_distinct(Len(qs))
          \/ Call_values(Len(qs), <<"age">>)
    \/ \E b \in 1..Len(qs) :
          \/ Call_all(b)
          \/ Call_iter(b)
          \/ Call_get(b, <<(<<(<<"id">>), IntV(1)>>)>>)
          \/ Call_first(b)
          \/ Call_last(b)
          \/ \E key \in 0..1 : Call_getitem(b, key)
          \/ Call_exists(b)
          \/ \E kwargs \in UpdateKwargs : Call_update(b, kwargs)
    \/ Model_create(IntV(1), StrV(<<ord("a")>>))
    \/ Model_delete(1)

SpecT == Init /\ [][NextT]_vars

(***************************************************************************)
(* Claims about the terminal operations.                                   *)
(***************************************************************************)
Terminals == {"all", "get", "first", "last", "iter", "getitem"}

\* C13: after a terminal call (all, get, first, iteration or indexing) on a
\* builder, a later terminal call on that same builder is answered from
\* the rows cached on it and executes no SELECT.  Stated of a terminal call
\* that directly follows a terminal call that returned, on the same builder.
C13_LaterCallsCached ==
    [][/\ last.op \in Terminals
       /\ last.exc = "none"
       /\ last'.op \in Terminals
       /\ last'.self = last.self
       => /\ last'.stmts = <<>>
          /\ qs[last'.self].cache # NoneV]_vars

\* C13 as the code has it: once all() or iteration has returned on a
\* builder, the rows stay cached on it and every later all() or iteration
\* on that builder returns the instances of those rows and executes no
\* SELECT; get, first, last and indexing evaluate a clone, so each of them
\* executes one SELECT whether or not the builder has cached rows, and
\* leaves the builder's cache as it was.
C13_CacheServesAllAndIter ==
    [][/\ \A b \in 1..Len(qs) :
             qs[b].cache # NoneV => qs'[b].cache = qs[b].cache
       /\ last'.op \in {"all", "iter"} /\ last'.exc = "none"
             => qs'[last'.self].cache # NoneV
       /\ last'.op \in {"all", "iter"} /\ qs[last'.self].cache # NoneV
             => /\ last'.stmts = <<>>
                /\ last'.exc = "none"
                /\ last'.ret = Instances(View(last'.self),
                                         qs[last'.self].cache.v)
       /\ last'.op \in {"get", "first", "last", "getitem"} /\ last' # last
             => /\ Len(last'.stmts) = 1
                /\ qs' = qs]_vars

\* all() on the first builder was answered from two cached rows, without a
\* statement, when the table holds fewer rows
C13_Witness ==
    /\ last.op = "all"
    /\ last.self = 1
    /\ last.stmts = <<>>
    /\ Len(last.ret) = 2
    /\ Len(qs[1].cache.v) = 2
    /\ Len(table) < 2

\* C16: update(**kwargs) in which some key is not a declared field raises
\* QueryError, executes no statement and changes no row, also when other
\* keys of the same call are declared fields.
C16_UnknownFieldRefused ==
    [][/\ last'.op = "update"
       /\ \E i \in 1..Len(last'.args) : last'.args[i][1] \notin Range(Fields)
       => /\ last'.exc = "QueryError"
          /\ last'.stmts = <<>>
          /\ table' = table]_vars

\* update(age=2, bogus=1) was refused on a builder whose query matches a
\* row whose age is not 2
C16_Witness ==
    /\ last.op = "update"
    /\ Len(last.args) = 2
    /\ last.args[1][1] = "age"
    /\ last.args[2][1] = "bogus"
    /\ last.exc = "QueryError"
    /\ \E i \in 1..Len(table) :
          /\ table[i].age # IntV(2)
          /\ Matches(_build_where_clause(View(last.self)).conditions,
                     _build_where_clause(View(last.self)).params, table[i])

\* last() and first() of the builder a chaining call returned
LastOf(c, tbl) == last_(c[1], c[2], tbl)

FirstOf(c, tbl) == first(c[1], c[2], tbl)

\* order_by('-x').last() and order_by('x').first() on object o execute the
\* same statement with the same parameters and return the same
SameEnd(o, h, tbl, x) ==
    /\ LastOf(order_by(o, h, <<(<<"-">> \o x)>>), tbl).stmts
           = FirstOf(order_by(o, h, <<x>>), tbl).stmts
    /\ Len(FirstOf(order_by(o, h, <<x>>), tbl).stmts) = 1
    /\ LastOf(order_by(o, h, <<(<<"-">> \o x)>>), tbl)
           = FirstOf(order_by(o, h, <<x>>), tbl)

\* an ORDER BY list with every direction turned round
Opposite(order) ==
    [i \in DOMAIN order |->
        <<order[i][1], IF order[i][2] = Kw("ASC") THEN Kw("DESC") ELSE Kw("ASC")>>]

\* the statement last() is to run for a builder whose own statement is sql
FlippedSql(sql) ==
    [sql EXCEPT !.order = IF sql.order = <<>>
                          THEN <<(<<Ident(<<"id">>), Kw("DESC")>>)>>
                          ELSE Opposite(sql.order),
                !.limit = IntV(1)]

\* C19: for every field x and every builder, order_by('-x').last() and
\* order_by('x').first() build the same statement and parameters and return
\* the same record or both None; and last() runs the receiver's query with
\* every ordering direction flipped, ordered by id descending when the
\* receiver has no ordering, and LIMIT 1.
C19_LastFlipsOrdering ==
    /\ [](\A b \in 1..Len(qs) : \A x \in {<<"age">>, <<"id">>} :
             SameEnd(qs[b], lists, table, x))
    /\ [][last'.op = "last"
          => /\ Len(last'.stmts) = 1
             /\ last'.stmts[1].sql
                    = FlippedSql(_build_sql(View(last'.self)).sql)
             /\ last'.stmts[1].params = _build_sql(View(last'.self)).params]_vars

\* last() on the builder ordered by -age returned the row with the lowest
\* age of two rows of different ages
C19_Witness ==
    /\ last.op = "last"
    /\ View(last.self).order_by = <<(<<"-", "age">>)>>
    /\ Len(table) = 2
    /\ table[1].age = IntV(2)
    /\ table[2].age = IntV(1)
    /\ last.exc = "none"
    /\ last.ret # NoneV
    /\ last.ret.v["age"] = IntV(1)

\* the statement run is the builder's statement sql with a constant for
\* its select list
ConstantProjection(run, sql) ==
    /\ SelectList(run) = <<Kw("1")>>
    /\ [run EXCEPT !.select = sql.select] = sql

\* the call answered whether the builder's query q has a row in tbl
AnsweredExists(call, q, tbl) ==
    /\ Len(call.stmts) = 1
    /\ call.stmts[1].params = q.params
    /\ IF SelectOk(q.sql, q.params)
       THEN /\ call.exc = "none"
            /\ call.ret = BoolV(SelectRows(q.sql, q.params, tbl) # <<>>)
       ELSE call.exc # "none"

\* C20: for every builder, also one with distinct() or a values()
\* projection, exists() executes the builder's query with the projection
\* replaced by a constant literal, returns true exactly when the builder's
\* query has a row, and neither reads nor fills the row cache.
C20_ExistsConstantProjection ==
    [][last'.op = "exists"
       => /\ AnsweredExists(last', _build_sql(View(last'.self)), table)
          /\ ConstantProjection(last'.stmts[1].sql,
                                _build_sql(View(last'.self)).sql)
          /\ qs' = qs]_vars

\* the answer and the cache are as claimed for every builder, and the
\* projection is replaced for the builders without distinct() and values()
C20_ExistsAnswer ==
    [][last'.op = "exists"
       => /\ AnsweredExists(last', _build_sql(View(last'.self)), table)
          /\ ~View(last'.self).distinct /\ View(last'.self).values_fields = NoneV
                => ConstantProjection(last'.stmts[1].sql,
                                      _build_sql(View(last'.self)).sql)
          /\ qs' = qs]_vars

(***************************************************************************)
(* Connection.begin and Connection.atomic.  conn is the Connection: its    *)
(* _transaction_depth and the transaction statements it has run (log);     *)
(* raising tells where an exception of the program is ("no": none, "body": *)
(* raised in the body of the innermost scope, "left": it has left a scope  *)
(* through atomic's except clause), and raised that some scope of the      *)
(* transaction was left by an exception.  _conn tells that the sqlite3     *)
(* connection begin() opened has not been closed by close(); scopes counts *)
(* the with-blocks of atomic() the program is inside of.  table is what    *)
(* the connection reads, disk what its last commit left, and entry what    *)
(* was on disk when the outermost open scope was entered.                  *)
(***************************************************************************)
MaxDepth == 3        \* nesting of atomic scopes
MaxLog == 6          \* statements in the log

\* Connection.commit / Connection.rollback: if self._conn
Connection_commit(c) ==
    IF c._conn THEN [c EXCEPT !.log = Append(@, "COMMIT")] ELSE c

Connection_rollback(c) ==
    IF c._conn THEN [c EXCEPT !.log = Append(@, "ROLLBACK")] ELSE c

\* self.execute("BEGIN"): connect() opens the connection if there is none
Begun(c) ==
    [c EXCEPT !.log = Append(@, "BEGIN"), !.raised = FALSE, !._conn = TRUE]

\* Connection.begin: the depth goes up, the first level executes BEGIN
Connection_begin(c) ==
    IF c._transaction_depth + 1 = 1
    THEN Begun([c EXCEPT !._transaction_depth = @ + 1])
    ELSE [c EXCEPT !._transaction_depth = @ + 1]

\* atomic, after the body returned: commit at depth 1, then depth -= 1
atomic_else(c) ==
    IF c._transaction_depth = 1
    THEN [Connection_commit(c) EXCEPT !._transaction_depth = @ - 1]
    ELSE [c EXCEPT !._transaction_depth = @ - 1]

\* atomic, except Exception: depth -= 1, rollback at depth 0, raise
atomic_except(c) ==
    IF c._transaction_depth - 1 = 0
    THEN [Connection_rollback(c) EXCEPT !._transaction_depth = @ - 1,
                             !.raising = "left", !.raised = TRUE]
    ELSE [c EXCEPT !._transaction_depth = @ - 1,
                   !.raising = "left", !.raised = TRUE]

\* with conn.atomic(): entered, inside the body of the scope around it
Atomic_enter ==
    /\ conn.raising = "no"
    /\ conn.scopes < MaxDepth
    /\ conn._transaction_depth < MaxDepth
    /\ Len(conn.log) < MaxLog
    /\ conn' = [Connection_begin(conn) EXCEPT
                    !.scopes = @ + 1,
                    !.entry = IF conn.scopes = 0 THEN disk ELSE @]
    /\ UNCHANGED <<qvars, mvars, objs, disk>>

\* the body of the innermost scope raises
Body_raise ==
    /\ conn.raising = "no"
    /\ conn.scopes > 0
    /\ conn' = [conn EXCEPT !.raising = "body"]
    /\ UNCHANGED <<qvars, mvars, objs, disk>>

\* the body of the innermost scope returns
Atomic_exit ==
    /\ conn.raising = "no"
    /\ conn.scopes > 0
    /\ conn' = [atomic_else(conn) EXCEPT !.scopes = @ - 1]
    /\ disk' = IF conn._transaction_depth = 1 /\ conn._conn THEN table ELSE disk
    /\ UNCHANGED <<qvars, mvars, objs>>

\* the exception reaches the innermost scope
Atomic_raise ==
    /\ conn.raising # "no"
    /\ conn.scopes > 0
    /\ conn' = [atomic_except(conn) EXCEPT !.scopes = @ - 1]
    /\ table' = IF conn._transaction_depth - 1 = 0 /\ conn._conn
                THEN disk ELSE table
    /\ UNCHANGED <<qs, lists, nextId, last, disk>>
    /\ UNCHANGED <<mvars, objs>>

\* the code around the scope the exception left catches it (try/except in
\* the body of the enclosing scope, or outside every scope)
Body_catch ==
    /\ conn.raising = "left"
    /\ conn' = [conn EXCEPT !.raising = "no"]
    /\ UNCHANGED <<qvars, mvars, objs, disk>>

NextAtomic ==
    \/ Atomic_enter
    \/ Body_raise
    \/ Atomic_exit
    \/ Atomic_raise
    \/ Body_catch

SpecAtomic == Init /\ [][NextAtomic]_vars

\* the step ended the transaction with statement s
Ended(c, d, s) == d.log = Append(c.log, s)

\* C15: with atomic scopes nested to any depth, atomic() commits or rolls
\* back only when the outermost scope exits; and when an exception was
\* raised inside any scope, the transaction is rolled back, not
\* committed, once the depth counter is back at zero.
C15_RollbackOnException ==
    [][/\ Ended(conn, conn', "COMMIT") \/ Ended(conn, conn', "ROLLBACK")
          => conn._transaction_depth = 1 /\ conn'._transaction_depth = 0
       /\ /\ conn._transaction_depth = 1
          /\ conn'._transaction_depth = 0
          /\ conn.raised \/ conn.raising # "no"
          => Ended(conn, conn', "ROLLBACK")]_vars

\* commit and rollback happen only at the exit of the outermost scope; the
\* exit rolls back when an exception leaves the outermost scope and
\* commits otherwise
C15_OutermostDecides ==
    [][/\ Ended(conn, conn', "COMMIT") \/ Ended(conn, conn', "ROLLBACK")
          => conn._transaction_depth = 1 /\ conn'._transaction_depth = 0
       /\ conn._transaction_depth = 1 /\ conn'._transaction_depth = 0
          => IF conn.raising # "no" THEN Ended(conn, conn', "ROLLBACK")
             ELSE Ended(conn, conn', "COMMIT")]_vars

(***************************************************************************)
(* Claims about a rollback() that fails.                                   *)
(***************************************************************************)
\* the position of name in the ledger l (0 when it is not there)
Position(l, name) ==
    IF name \in Range(l) THEN CHOOSE i \in 1..Len(l) : l[i] = name ELSE 0

\* the call with trace T failed in migration T[Len(T)].m: nothing follows
\* the failure, the row of the failing migration and the rows before it
\* are in the ledger l2 as they were in l, no event touches a migration
\* applied before the failing one, and the rows of the migrations rolled
\* back before are gone
HaltedAt(T, l, l2) ==
    /\ T[Len(T)].e = "fail"
    /\ \A j \in 1..(Len(T) - 1) : T[j].e # "fail"
    /\ Position(l, T[Len(T)].m) > 0
    /\ l2 = SubSeq(l, 1, Position(l, T[Len(T)].m))
    /\ \A j \in 1..Len(T) : Position(l, T[j].m) >= Position(l, T[Len(T)].m)
    /\ \A j \in 1..Len(T) : T[j].e = "unledger" => T[j].m \notin Range(l2)

\* C23: when reversing a migration fails during rollback(n), rollback
\* raises MigrationError, the ledger row of that migration is kept, no
\* migration applied before it is rolled back in the call, and the
\* migrations the call rolled back before stay out of the ledger.
C23_RollbackFailureHalts ==
    [][/\ mlast'.op = "rollback"
       /\ \E j \in 1..Len(mlast'.trace) : mlast'.trace[j].e = "fail"
       => /\ mlast'.exc = "MigrationError"
          /\ HaltedAt(mlast'.trace, ledger, ledger')]_vars

\* a rollback took one migration back, failed in the one before it, and
\* left a third, applied before both, in the ledger
C23_Witness ==
    /\ mlast.op = "rollback"
    /\ mlast.exc = "MigrationError"
    /\ Len(Unledgered(mlast.trace)) = 1
    /\ Len(ledger) = 2
    /\ ledger[2] = mlast.trace[Len(mlast.trace)].m

RECURSIVE FullyReversed(_, _, _)
\* the schema after every operation of the migrations `names` is reversed
FullyReversed(names, fs, s) ==
    IF names = <<>> THEN s
    ELSE FullyReversed(Tail(names), fs,
           Migration_reverse(names[1], OperationsOf(fs, names[1]), s).schema)

\* C25: when the rollback of a migration raises MigrationError, none of the
\* operations of that migration has been reversed: the schema is the one
\* the migrations the call rolled back before, and no other, left.
C25_FailedReverseUntouched ==
    [][/\ mlast'.op = "rollback"
       /\ mlast'.exc = "MigrationError"
       => schema' = FullyReversed(Unledgered(mlast'.trace), files, schema)]_vars

(***************************************************************************)
(* SpecCreate: migration files made only of CreateTable operations, and    *)
(* migrate() and rollback(n) calls.  Every call completes, but a           *)
(* rollback() before the first migrate(), which changes nothing.           *)
(***************************************************************************)
Creations == {CreateTable("a", <<"x">>), CreateTable("b", <<"x">>)}

NextCreate ==
    \/ \E name \in MigrationNames, operations \in ListsOf(Creations, MaxOps) :
          Call_create_migration_file(name, operations)
    \/ Call_migrate
    \/ \E steps \in 1..MaxSteps : Call_rollback(steps)

SpecCreate == Init /\ [][NextCreate]_vars

\* some migration recorded in the ledger l creates table t
CreatedByLedger(t, fs, l) ==
    \E i \in 1..Len(l) :
        \E j \in 1..Len(OperationsOf(fs, l[i])) :
            /\ OperationsOf(fs, l[i])[j].kind = "CreateTable"
            /\ OperationsOf(fs, l[i])[j].table_name = t

\* C24: after any sequence of completed migrate() and rollback(n) calls over
\* migration files made only of CreateTable operations, a table exists
\* exactly when a migration that creates it is in the ledger, and no
\* migration name is in the ledger twice.
C24_LedgerMatchesSchema ==
    /\ \A t \in {"a", "b"} :
          HasTable(schema, t) <=> CreatedByLedger(t, files, ledger)
    /\ \A i, j \in 1..Len(ledger) : i # j => ledger[i] # ledger[j]

\* the same, while no two migration files create the same table
CreateOnce(fs) ==
    \A f, g \in fs : \A i \in 1..Len(f.operations), j \in 1..Len(g.operations) :
        f.operations[i].table_name = g.operations[j].table_name
        => f = g

C24_LedgerMatchesSchemaCreateOnce ==
    CreateOnce(files) => C24_LedgerMatchesSchema

(***************************************************************************)
(* MigrationManager.makemigrations.  The name of the file is made of the   *)
(* clock's second; the calls here fall into different seconds, so that     *)
(* each name comes after the names written before.                         *)
(***************************************************************************)
\* makemigrations, `operations` being what auto_detect_changes returned
Made_migration(models, name, operations) ==
    /\ files' = IF operations = <<>> THEN files
                ELSE files \cup {[name |-> name, operations |-> operations]}
    /\ mlast' = [op |-> "makemigrations", arg |-> models, exc |-> "none",
                 trace |-> <<>>, ret |-> operations]
    /\ UNCHANGED <<ledger, schema>>
    /\ UNCHANGED <<qvars, conn, objs, disk>>

Call_makemigrations(models, name) ==
    /\ Cardinality(files) < MaxFiles
    /\ \A n \in Names(files) : SeqLess(n, name)
    /\ Made_migration(models, name, auto_detect_changes(models, schema))

\* the models of a project, as its author declares them one day and another
Declarations ==
    {<<[table_name |-> "a", fields |-> <<"x">>]>>,
     <<[table_name |-> "a", fields |-> <<"x", "y">>]>>,
     <<[table_name |-> "a", fields |-> <<"x", "y">>],
       [table_name |-> "b", fields |-> <<"x">>]>>}

NextMake ==
    \/ \E models \in Declarations, name \in MigrationNames :
          Call_makemigrations(models, name)
    \/ Call_migrate
    \/ \E models \in Declarations : Call_auto_detect_changes(models)

SpecMake == Init /\ [][NextMake]_vars

\* every pending migration file holds the operations ops
PendingHold(fs, l, ops) ==
    /\ Names(fs) \ Range(l) # {}
    /\ \A name \in Names(fs) \ Range(l) : OperationsOf(fs, name) = ops

\* C28: after one or more makemigrations(models) calls that each wrote a
\* file under a name of its own, migrate() completes without error and
\* auto_detect_changes(models) then returns no operation.  Stated of the
\* migrate() that follows the last of the calls, the pending files being
\* the ones those calls wrote, for models that declare different tables.
C28_MakeThenMigrate ==
    [][/\ mlast.op = "makemigrations"
       /\ DistinctTables(mlast.arg)
       /\ PendingHold(files, ledger, mlast.ret)
       /\ mlast'.op = "migrate"
       => /\ mlast'.exc = "none"
          /\ auto_detect_changes(mlast.arg, schema') = <<>>]_vars

\* the same, when one file is pending
C28_MakeOnceThenMigrate ==
    [][/\ mlast.op = "makemigrations"
       /\ DistinctTables(mlast.arg)
       /\ PendingHold(files, ledger, mlast.ret)
       /\ Cardinality(Names(files) \ Range(ledger)) = 1
       /\ mlast'.op = "migrate"
       => /\ mlast'.exc = "none"
          /\ auto_detect_changes(mlast.arg, schema') = <<>>]_vars


(***************************************************************************)
(* Connection.begin called by the program itself, and Connection.close.    *)
(***************************************************************************)
\* Connection.close: if self._conn, the connection is dropped and the depth
\* is set to 0; the scopes the program is inside of stay open
Connection_close(c) ==
    IF c._conn THEN [c EXCEPT !._conn = FALSE, !._transaction_depth = 0] ELSE c

\* conn.begin(), outside of atomic's own call
Call_begin ==
    /\ conn.raising = "no"
    /\ conn._transaction_depth < MaxDepth
    /\ Len(conn.log) < MaxLog
    /\ conn' = Connection_begin(conn)
    /\ UNCHANGED <<qvars, mvars, objs, disk>>

\* conn.close(): sqlite3 discards what the open transaction wrote
Call_close ==
    /\ conn.raising = "no"
    /\ conn' = Connection_close(conn)
    /\ table' = IF conn._conn THEN disk ELSE table
    /\ UNCHANGED <<qs, lists, nextId, last, disk>>
    /\ UNCHANGED <<mvars, objs>>

NextConn ==
    \/ NextAtomic
    \/ Call_begin
    \/ Call_close

SpecConn == Init /\ [][NextConn]_vars

\* the step executed BEGIN
IssuedBegin(c, d) == d.log = Append(c.log, "BEGIN")

\* C27: after any sequence of begin(), atomic() entries and exits and
\* close(), the depth counter is never negative and equals the number of
\* atomic scopes that are open, and BEGIN is issued exactly by the steps
\* that take the counter from 0 to 1
C27_DepthCountsScopes ==
    /\ [](/\ conn._transaction_depth >= 0
          /\ conn._transaction_depth = conn.scopes)
    /\ [][IssuedBegin(conn, conn')
            <=> (conn._transaction_depth = 0 /\ conn'._transaction_depth = 1)]_vars

\* what holds of begin(), atomic() and close() together: BEGIN is issued
\* exactly by the steps that take the counter from 0 to 1
C27_BeginOnFirstLevel ==
    [][IssuedBegin(conn, conn')
         <=> (conn._transaction_depth = 0 /\ conn'._transaction_depth = 1)]_vars

\* what holds of atomic() alone: the counter is the number of open scopes
C27_AtomicCountsScopes ==
    conn._transaction_depth >= 0 /\ conn._transaction_depth = conn.scopes

\* a scope was closed over by close() and then left: the counter is below 0
C27_NegativeDepth == conn._transaction_depth < 0 /\ conn.scopes = 0

(***************************************************************************)
(* Writes inside atomic scopes: Model.save (of a new instance),            *)
(* Model.delete, QuerySet.update and QuerySet.delete, each of which calls  *)
(* connection.commit() itself.                                             *)
(***************************************************************************)
Write ==
    \/ Model_create(IntV(1), StrV(<<ord("a")>>))
    \/ Model_delete(1)
    \/ \E b \in 1..Len(qs) :
          \/ Call_update(b, <<(<<"age", IntV(2)>>)>>)
          \/ Call_delete(b)

NextTx ==
    \/ NextAtomic
    \/ conn.raising = "no" /\ Write
    \/ /\ Len(qs) < MaxEvaluated
       /\ Call_filter(Len(qs), <<(<<(<<"age">>), IntV(2)>>)>>)

SpecTx == Init /\ [][NextTx]_vars

\* the step leaves the outermost open scope
LeftOutermost(c, d) == c.scopes = 1 /\ d.scopes = 0

\* C26: when an exception leaves the outermost atomic scope, what is on
\* disk is what was there when the scope was entered (no write made inside
\* is persisted); when the scope is left normally, every write made inside
\* is on disk
C26_AtomicWrites ==
    [][LeftOutermost(conn, conn')
         => IF conn.raising # "no"
            THEN disk' = conn.entry /\ table' = conn.entry
            ELSE disk' = table /\ table' = table]_vars

\* what holds: a scope left normally leaves every write on disk, and so
\* does every write call by itself, whether it is inside a scope or not,
\* and whichever way the scope is left later
C26_WritesCommitThemselves ==
    /\ [](disk = table)
    /\ [][LeftOutermost(conn, conn') /\ conn.raising = "no"
            => disk' = table /\ table' = table]_vars

\* an exception has left the outermost scope and a row inserted inside the
\* scope is on disk
C26_PersistedAfterRollback ==
    /\ conn.scopes = 0
    /\ conn.raising = "left"
    /\ conn.log # <<>> /\ conn.log[Len(conn.log)] = "ROLLBACK"
    /\ conn.entry = <<>>
    /\ disk # <<>>

(***************************************************************************)
(* Model instances: Model.__init__, attribute assignment, Model.save with  *)
(* _insert and _update, and Model.delete of an instance.  An instance is   *)
(* [t |-> "obj", loaded |-> _loaded_from_db, v |-> its field values].      *)
(***************************************************************************)
MaxInstances == 2    \* instances the program holds

\* Model.__init__(age=..., name=...): the id is None, nothing is loaded
Model_init(age, name) ==
    [t |-> "obj", loaded |-> FALSE,
     v |-> [id |-> NoneV, age |-> age, name |-> name]]

\* Model._insert: the auto-increment primary key is skipped, the row takes
\* the next id, the instance learns cursor.lastrowid and counts as loaded
_insert(o, tbl, next) ==
    [table |-> Append(tbl, [id |-> IntV(next), age |-> o.v.age,
                            name |-> o.v.name]),
     nextId |-> next + 1,
     obj |-> [o EXCEPT !.v.id = IntV(next), !.loaded = TRUE]]

\* Model._update: UPDATE users SET age = ?, name = ? WHERE id = ?; the
\* number of rows the statement changed is not looked at
_update(o, tbl, next) ==
    [table |-> [k \in 1..Len(tbl) |->
                  IF tbl[k].id = o.v.id
                  THEN [tbl[k] EXCEPT !.age = o.v.age, !.name = o.v.name]
                  ELSE tbl[k]],
     nextId |-> next,
     obj |-> o]

\* Model.save
save(o, tbl, next) ==
    IF o.v.id # NoneV /\ o.loaded
    THEN _update(o, tbl, next)
    ELSE _insert(o, tbl, next)

\* obj = User(age=..., name=...)
Call_init(age, name) ==
    /\ Len(objs) < MaxInstances
    /\ objs' = Append(objs, Model_init(age, name))
    /\ last' = Called("init", 0, <<age, name>>, IntV(Len(objs) + 1), "none",
                      <<>>)
    /\ UNCHANGED <<qs, lists, table, nextId, disk>>
    /\ UNCHANGED <<mvars, conn>>

\* obj.age = age
Call_setattr(i, age) ==
    /\ objs' = [objs EXCEPT ![i].v.age = age]
    /\ last' = Called("setattr", 0, <<i, age>>, NoneV, "none", <<>>)
    /\ UNCHANGED <<qs, lists, table, nextId, disk>>
    /\ UNCHANGED <<mvars, conn>>

SaveDone(i, r) ==
    /\ table' = r.table
    /\ nextId' = r.nextId
    /\ objs' = [objs EXCEPT ![i] = r.obj]
    /\ disk' = r.table
    /\ last' = Called("save", 0, <<i>>, NoneV, "none", <<>>)
    /\ UNCHANGED <<qs, lists>>
    /\ UNCHANGED <<mvars, conn>>

\* obj.save()
Call_save(i) ==
    /\ (objs[i].v.id = NoneV \/ ~objs[i].loaded) => nextId <= MaxRows
    /\ SaveDone(i, save(objs[i], table, nextId))

\* obj.delete() of an instance that has a primary key: the instance keeps
\* its id and _loaded_from_db
Call_Model_delete(i) ==
    /\ objs[i].v.id # NoneV
    /\ Model_delete(objs[i].v.id.v)

Ages == {IntV(1), IntV(2)}

NextSave ==
    \/ \E age \in Ages : Call_init(age, StrV(<<ord("a")>>))
    \/ \E i \in 1..Len(objs) :
          \/ \E age \in Ages : Call_setattr(i, age)
          \/ Call_save(i)
          \/ Call_Model_delete(i)

SpecSave == Init /\ [][NextSave]_vars

\* the rows of tbl whose primary key is pk
RowsOf(tbl, pk) == {k \in 1..Len(tbl) : tbl[k].id = pk}

\* get(id=o.id) on the table returns a record with the field values of o
GetsBack(o, tbl) ==
    /\ get(qs[1], lists, <<(<<(<<"id">>), o.v.id>>)>>, tbl).exc = "none"
    /\ get(qs[1], lists, <<(<<(<<"id">>), o.v.id>>)>>, tbl).ret.v = o.v

\* the instance has a row of its own in the table
Stored(o, tbl) == o.loaded /\ RowsOf(tbl, o.v.id) # {}

\* what the claim says of the save() that took (o, tbl) to (o2, tbl2)
SavedRight(o, tbl, o2, tbl2) ==
    /\ Cardinality(RowsOf(tbl2, o2.v.id)) = 1
    /\ GetsBack(o2, tbl2)
    /\ Stored(o, tbl) => Len(tbl2) = Len(tbl)

\* C22: after any save() on an instance returns (a first save, a save after
\* attribute changes, a save after the instance's delete()), the table holds
\* exactly one row with the instance's primary key, get by that key returns
\* a record with the instance's field values, and a save() on an instance
\* that is already stored adds no row.  The primary key is the field id.
C22_SaveStores ==
    [][last'.op = "save"
         => SavedRight(objs[last'.args[1]], table,
                       objs'[last'.args[1]], table')]_vars

\* what holds: the same, of every save() on an instance that is new or
\* whose row is still in the table
C22_SaveStoresUndeleted ==
    [][/\ last'.op = "save"
       /\ ~objs[last'.args[1]].loaded \/ Stored(objs[last'.args[1]], table)
       => SavedRight(objs[last'.args[1]], table,
                     objs'[last'.args[1]], table')]_vars

\* a save() after attribute changes on a stored instance has returned
C22_SavedChanges ==
    /\ last.op = "save"
    /\ Len(table) = 1
    /\ table[1].age = IntV(2)
    /\ objs[last.args[1]].v.age = IntV(2)
    /\ nextId = 2

(***************************************************************************)
(* The scenario filter(age__gte=a).exclude(status=s)                       *)
(* .order_by('-created_at').limit(n).all(), on the model of this           *)
(* development: its text column name stands for status and its id, which   *)
(* grows with every insert, for created_at.                                *)
(***************************************************************************)
ScenarioNames == {<<ord("a")>>, <<ord("b")>>}

\* the next call of the chain, on the builder the call before returned
ScenarioStep ==
    \/ /\ Len(qs) = 1
       /\ \E a \in 1..2 : Call_filter(1, <<(<<(<<"age", "gte">>), IntV(a)>>)>>)
    \/ /\ Len(qs) = 2
       /\ \E s \in ScenarioNames :
             Call_exclude(2, <<(<<(<<"name">>), StrV(s)>>)>>)
    \/ /\ Len(qs) = 3
       /\ Call_order_by(3, <<(<<"-", "id">>)>>)
    \/ /\ Len(qs) = 4
       /\ \E n \in 0..2 : Call_limit(4, IntV(n))
    \/ /\ Len(qs) = 5
       /\ Call_all(5)

NextScenario ==
    \/ ScenarioStep
    \/ \E age \in {NoneV, IntV(1), IntV(2)}, s \in ScenarioNames :
          Model_create(age, StrV(s))

SpecScenario == Init /\ [][NextScenario]_vars

\* v is a builder the chain of the scenario made
Scenario(v) ==
    /\ Len(v.filters) = 1
    /\ v.filters[1][1] = <<"age">> /\ v.filters[1][2] = "gte"
    /\ Len(v.excludes) = 1
    /\ v.excludes[1][1] = <<"name">> /\ v.excludes[1][2] = "exact"
    /\ v.order_by = <<(<<"-", "id">>)>>
    /\ v.limit # NoneV

\* at most n records, each with age >= a and a name other than s, by
\* descending id
ScenarioResult(ret, a, s, n) ==
    /\ Len(ret) <= n.v
    /\ \A k \in 1..Len(ret) :
          /\ ret[k].v.age.t = "int"
          /\ ret[k].v.age.v >= a.v
          /\ ret[k].v.name # s
    /\ \A k \in 1..Len(ret), l \in 1..Len(ret) :
          k < l => ret[k].v.id.v >= ret[l].v.id.v

\* C21: for any table contents and any a, s and n >= 0,
\* filter(age__gte=a).exclude(status=s).order_by('-created_at').limit(n).all()
\* returns at most n rows, each with age >= a and a status other than s,
\* in descending created_at order
C21_ScenarioResult ==
    [][last'.op = "all" /\ Scenario(View(last'.self))
         => /\ last'.exc = "none"
            /\ ScenarioResult(last'.ret, View(last'.self).filters[1][3],
                              View(last'.self).excludes[1][3],
                              View(last'.self).limit)]_vars

\* the scenario returned two records of a table of two matching rows
C21_Witness ==
    /\ last.op = "all"
    /\ Scenario(View(last.self))
    /\ Len(table) = 2
    /\ Len(last.ret) = 2
    /\ last.ret[1].v.id = IntV(2)

(***************************************************************************)
(* QuerySet.count and QuerySet.__len__, and builders with a limit, an      *)
(* offset, distinct() or values().                                         *)
(***************************************************************************)
\* f"SELECT COUNT(*) FROM {table_name}{where_clause}"
CountSql(conditions) ==
    [verb |-> "SELECT", select |-> <<Kw("SELECT"), Kw("COUNT(*)")>>,
     from |-> TableName, where |-> conditions, order |-> <<>>,
     limit |-> NoneV, offset |-> NoneV]

\* cursor.fetchone()[0] of the COUNT(*) over the rows the clause keeps
Counted(sql, params, tbl) ==
    IF WhereOk(sql.where, params)
    THEN [exc |-> "none", ret |-> IntV(Len(WhereRows(sql.where, params, tbl))),
          stmts |-> <<Stmt(sql, params, TRUE, <<>>)>>]
    ELSE [exc |-> "ConnectionError", ret |-> NoneV,
          stmts |-> <<Stmt(sql, params, FALSE, <<>>)>>]

\* QuerySet.count on builder value v: only _build_where_clause is asked
count(v, tbl) ==
    Counted(CountSql(_build_where_clause(v).conditions),
            _build_where_clause(v).params, tbl)

\* QuerySet.__len__: self.count()
__len__(v, tbl) == count(v, tbl)

Call_count(b) == TerminalDone("count", b, <<>>, count(View(b), table))

Call_len(b) == TerminalDone("len", b, <<>>, __len__(View(b), table))

PageStep(b) ==
    \/ Call_filter(b, <<(<<(<<"age">>), IntV(1)>>)>>)
    \/ \E n \in 0..1 : Call_limit(b, IntV(n))
    \/ Call_offset(b, IntV(1))
    \/ Call_distinct(b)
    \/ Call_values(b, <<"age">>)
    \/ Call_order_by(b, <<(<<"-", "id">>)>>)

NextPage ==
    \/ Len(qs) < MaxBuilders /\ PageStep(Len(qs))
    \/ \E b \in 1..Len(qs) :
          \/ Call_first(b)
          \/ Call_count(b)
          \/ Call_len(b)
    \/ Model_create(IntV(1), StrV(<<ord("a")>>))

SpecPage == Init /\ [][NextPage]_vars

\* where all() returns a list, first() answered from it: None exactly when
\* the list is empty, and otherwise the record it lists first
FirstOfAll(r, a) ==
    a.exc = "none"
    => /\ r.exc = "none"
       /\ r.ret = NoneV <=> a.ret = <<>>
       /\ a.ret # <<>> => r.ret = a.ret[1]

\* C29: for every builder q, whatever its filters, ordering, limit and
\* offset, q.first() returns None exactly when q.all() is empty and
\* otherwise returns the record that q.all() lists first
C29_FirstIsFirstOfAll ==
    [][last'.op = "first"
         => FirstOfAll(last', all(View(last'.self), table))]_vars

\* what holds: the same, of the builders whose limit is unset or at least 1
C29_FirstOfAllUnlessLimitZero ==
    [][/\ last'.op = "first"
       /\ View(last'.self).limit = NoneV \/ View(last'.self).limit.v >= 1
       => FirstOfAll(last', all(View(last'.self), table))]_vars

\* where iteration runs, the answer r is the number of records it produces
CountsIteration(r, it) ==
    it.exc = "none" => r.exc = "none" /\ r.ret = IntV(Len(it.ret))

\* C30: for every builder q, len(q) and q.count() equal the number of
\* records produced by iterating q, including when q has a limit, an offset
\* or distinct() set
C30_CountIsIterationLength ==
    [][last'.op \in {"count", "len"}
         => CountsIteration(last', __iter__(View(last'.self), table))]_vars

\* what holds: the same, of the builders with no limit, no offset and no
\* distinct()
C30_CountOfUnpaged ==
    [][/\ last'.op \in {"count", "len"}
       /\ View(last'.self).limit = NoneV
       /\ View(last'.self).offset = NoneV
       /\ ~View(last'.self).distinct
       => CountsIteration(last', __iter__(View(last'.self), table))]_vars
====
